---- MODULE Spec2Model ----
(***************************************************************************)
(* Tool dispatch, granular edit tools, change ledger and file-context sets *)
(* of the navigator coder (aider/coders/navigator_coder.py, aider/tools).  *)
(*                                                                         *)
(* File content is a sequence of one-character strings.  Paths given to a  *)
(* tool are relative spellings; abs_root_path maps them to absolute paths  *)
(* and get_rel_fname maps an absolute path to its canonical relative name. *)
(***************************************************************************)
EXTENDS Integers, Sequences, FiniteSets, TLC

\* ---------------------------------------------------------------- bounds
MaxEdits == 1          \* non-dry-run edit writes per session

\* ------------------------------------------------------------- universe
NL == "\n"
None == "None"
TRACKING_FAILED == "TRACKING_FAILED"

AbsPaths == {"/r/a", "/r/b"}
RelInputs == {"a", "./a", "b"}
\* One file ends with a line terminator, the other does not.
InitFiles == [p \in AbsPaths |->
                IF p = "/r/a" THEN <<"x", NL, "x", NL>> ELSE <<"x", NL, "y">>]
LineTexts == { <<"x">>, <<"y">> }
FindTexts == { <<"x">>, <<"y">> }
ReplaceTexts == { <<"x">>, <<"y">> }
UserChangeIds == {"u1"}
GenIdSeq == <<"g1", "g2", "g3", "g4", "g5">>
AllChangeIds == UserChangeIds \cup { GenIdSeq[i] : i \in 1..Len(GenIdSeq) }
LineArgs == 0..3
OccurrenceArgs == {-1, 0, 1, 2}
NearContextArgs == {None}

\* ------------------------------------------------------------ path maps
abs_root_path(path) ==
    CASE path = "a" -> "/r/a"
      [] path = "./a" -> "/r/a"
      [] path = "b" -> "/r/b"

get_rel_fname(abs_path) ==
    CASE abs_path = "/r/a" -> "a"
      [] abs_path = "/r/b" -> "b"

\* --------------------------------------------------------- string tools
RECURSIVE FirstNL(_, _)
FirstNL(s, i) ==
    IF i > Len(s) THEN 0
    ELSE IF s[i] = NL THEN i ELSE FirstNL(s, i + 1)

RECURSIVE splitlines(_)
splitlines(s) ==
    IF s = <<>> THEN <<>>
    ELSE LET i == FirstNL(s, 1) IN
         IF i = 0 THEN <<s>>
         ELSE <<SubSeq(s, 1, i - 1)>> \o splitlines(SubSeq(s, i + 1, Len(s)))

RECURSIVE join_nl(_)
join_nl(lines) ==
    IF lines = <<>> THEN <<>>
    ELSE IF Len(lines) = 1 THEN lines[1]
    ELSE lines[1] \o <<NL>> \o join_nl(Tail(lines))

StartsAt(s, pat, i) ==
    /\ i + Len(pat) - 1 <= Len(s)
    /\ SubSeq(s, i, i + Len(pat) - 1) = pat

\* str.count / str.replace: non-overlapping matches, scanned left to right
RECURSIVE str_count(_, _)
str_count(s, pat) ==
    IF Len(s) < Len(pat) THEN 0
    ELSE IF StartsAt(s, pat, 1)
         THEN 1 + str_count(SubSeq(s, Len(pat) + 1, Len(s)), pat)
         ELSE str_count(Tail(s), pat)

RECURSIVE str_replace(_, _, _)
str_replace(s, pat, rep) ==
    IF Len(s) < Len(pat) THEN s
    ELSE IF StartsAt(s, pat, 1)
         THEN rep \o str_replace(SubSeq(s, Len(pat) + 1, Len(s)), pat, rep)
         ELSE <<Head(s)>> \o str_replace(Tail(s), pat, rep)

\* ---------------------------------------------------------------- state
VARIABLES
    files,                  \* disk: absolute path -> content
    abs_fnames,             \* editable set
    abs_read_only_fnames,   \* read-only set
    recently_removed,       \* keys of coder.recently_removed
    changes,                \* change_tracker: change id -> record
    change_order,           \* change ids in creation order
    aider_edited_files,     \* coder.aider_edited_files
    local_tool_instances,   \* tool name -> the loaded instance that runs it
    custom_tools,           \* keys of coder.custom_tools
    mcp_tools,              \* advertised tools: <<server name, definitions>> entries
    use_granular_editing,   \* whether the editing tools are advertised
    last_op,                \* the tool run that produced this state
    last_args,              \* the parameters of that run, where a claim is about them
    edit_log,               \* writes performed by non-dry-run edits
    undo_count,             \* change id -> number of times an undo restored it
    pc,                     \* position of _execute_local_tool_calls
    tool_calls_list,        \* the turn's tool calls, in arrival order
    call_idx,               \* index of the tool call being processed
    parsed_args_list,       \* decoded fragments of that call not yet run
    all_results_content,    \* results of the fragments run so far
    tool_responses,         \* responses produced so far in this turn
    runs                    \* handler invocations of this turn

registry_vars == <<local_tool_instances, custom_tools, mcp_tools, use_granular_editing>>
tool_vars == <<files, abs_fnames, abs_read_only_fnames, recently_removed, changes,
               change_order, aider_edited_files, registry_vars, edit_log,
               undo_count>>
turn_vars == <<pc, tool_calls_list, call_idx, parsed_args_list,
               all_results_content, tool_responses, runs>>
vars == <<tool_vars, last_op, last_args, turn_vars>>

ctx_vars == <<abs_fnames, abs_read_only_fnames, recently_removed>>
ledger_vars == <<changes, change_order>>

NoWrite == [path |-> None, content |-> <<>>]
NoArgs == [tool |-> None]

Op(tool, path, result) ==
    [tool |-> tool, path |-> path, result |-> result, change_id |-> None,
     write |-> NoWrite, was_editable |-> FALSE, same |-> FALSE, detail |-> <<>>,
     started |-> None, warned |-> {}]

\* The values a result text interpolates, where a claim is about them.
Details(op, detail) == [op EXCEPT !.detail = detail]

\* State left alone by a tool run that only reports a result.
Reports(op) ==
    /\ last_op' = op
    /\ UNCHANGED tool_vars

CtxOnly(op) ==
    /\ last_op' = op
    /\ UNCHANGED <<files, ledger_vars, aider_edited_files, edit_log,
                   registry_vars, undo_count>>

\* ------------------------------------------------------ advertised tools
\* A tool definition as the model sees it: its function name and the class
\* of the instance that provides it (None for a built-in schema).
Definition(name, class) == [name |-> name, class |-> class]
Schemas(names) == [i \in 1..Len(names) |-> Definition(names[i], None)]

\* NavigatorCoder.get_local_tool_schemas
navigation_tools ==
    Schemas(<<"ViewFilesAtGlob", "ViewFilesMatching", "Ls", "View", "Remove",
              "MakeEditable", "MakeReadonly", "ViewFilesWithSymbol", "Command",
              "CommandInteractive", "Grep">>)
editing_tools ==
    Schemas(<<"ReplaceText", "ReplaceAll", "InsertBlock", "DeleteBlock",
              "ReplaceLine", "ReplaceLines", "IndentLines", "DeleteLine",
              "DeleteLines", "UndoChange", "ListChanges", "ExtractLines",
              "ShowNumberedContext">>)
get_local_tool_schemas ==
    IF use_granular_editing THEN navigation_tools \o editing_tools
    ELSE navigation_tools

LOCAL_TOOLS == "local_tools"

\* ------------------------------------------------------- construction
\* Coder.__init__: every existing fname becomes editable, every existing
\* read_only_fname becomes read-only.
InitEditable(fnames) == { abs_root_path(f) : f \in fnames }
InitReadOnly(read_only_fnames) == { abs_root_path(f) : f \in read_only_fnames }

InitCoder ==
    /\ \E fnames \in SUBSET RelInputs : abs_fnames = InitEditable(fnames)
    /\ \E ro \in SUBSET RelInputs : abs_read_only_fnames = InitReadOnly(ro)
    /\ recently_removed = {}
    /\ changes = << >>
    /\ change_order = <<>>
    /\ aider_edited_files = {}
    /\ local_tool_instances = << >>
    /\ custom_tools = {}
    /\ use_granular_editing = FALSE
    /\ mcp_tools = << <<LOCAL_TOOLS, get_local_tool_schemas>> >>
    /\ last_op = Op("__init__", None, "")
    /\ last_args = NoArgs
    /\ edit_log = <<>>
    /\ undo_count = [c \in AllChangeIds |-> 0]
    /\ pc = "idle"
    /\ tool_calls_list = <<>>
    /\ call_idx = 0
    /\ parsed_args_list = <<>>
    /\ all_results_content = <<>>
    /\ tool_responses = <<>>
    /\ runs = <<>>

Init == files = InitFiles /\ InitCoder

\* ------------------------------------------------------- context tools
\* NavigatorCoder._add_file_to_context: a file that is in neither set is
\* added to the read-only set.
add_file_to_context_ro(ro, ed, abs_path) ==
    IF abs_path \in ed \/ abs_path \in ro THEN ro ELSE ro \cup {abs_path}

ViewRun(file_path, confirmed) ==
    LET abs_path == abs_root_path(file_path) IN
    IF abs_path \in abs_fnames \/ abs_path \in abs_read_only_fnames
    THEN Reports(Op("View", abs_path, "File is already in context."))
    ELSE IF ~confirmed
    THEN Reports(Op("View", abs_path, "Action skipped by user."))
    ELSE /\ abs_read_only_fnames' =
                add_file_to_context_ro(abs_read_only_fnames, abs_fnames, abs_path)
         /\ UNCHANGED <<abs_fnames, recently_removed>>
         /\ CtxOnly(Op("View", abs_path, "Viewed file"))

\* The files of the repository, in the order get_all_relative_files()
\* lists them; only the first two have a content the edit tools work on.
MaxRepoFiles == 52
RepoFileNames == <<
    "/r/a", "/r/b", "/r/c03", "/r/c04", "/r/c05", "/r/c06", "/r/c07", "/r/c08", "/r/c09",
    "/r/c10", "/r/c11", "/r/c12", "/r/c13", "/r/c14", "/r/c15", "/r/c16", "/r/c17", "/r/c18",
    "/r/c19", "/r/c20", "/r/c21", "/r/c22", "/r/c23", "/r/c24", "/r/c25", "/r/c26", "/r/c27",
    "/r/c28", "/r/c29", "/r/c30", "/r/c31", "/r/c32", "/r/c33", "/r/c34", "/r/c35", "/r/c36",
    "/r/c37", "/r/c38", "/r/c39", "/r/c40", "/r/c41", "/r/c42", "/r/c43", "/r/c44", "/r/c45",
    "/r/c46", "/r/c47", "/r/c48", "/r/c49", "/r/c50", "/r/c51", "/r/c52", "/r/c53", "/r/c54" >>
RepoFiles == SubSeq(RepoFileNames, 1, MaxRepoFiles)
ToSet(list) == { list[i] : i \in 1..Len(list) }

\* os.path.getmtime: several files share a modification time.
Mtimes == [f \in ToSet(RepoFileNames) |->
             LET i == CHOOSE i \in 1..Len(RepoFileNames) : RepoFileNames[i] = f
             IN IF i <= 2 THEN i ELSE (i * 3) % 5]
mtime(abs_path) == Mtimes[abs_path]

\* list.sort(key=getmtime, reverse=True) and sorted(..., reverse=True): most
\* recent first, files of equal time staying in the order they had.
sort_by_mtime_reverse(list) ==
    LET n == Len(list)
        before(j, i) == \/ mtime(list[j]) > mtime(list[i])
                        \/ mtime(list[j]) = mtime(list[i]) /\ j < i
        rank == [i \in 1..n |-> Cardinality({ j \in 1..n : before(j, i) }) + 1]
    IN [p \in 1..n |-> list[CHOOSE i \in 1..n : rank[i] = p]]

\* Files kept when more than max_files_per_glob candidates match: the most
\* recently modified ones.
max_files_per_glob == 50

CapByMtime_unsorted(found) == IF Len(found) > max_files_per_glob THEN SubSeq(found, 1, max_files_per_glob) ELSE found
CapByMtime(found) ==
    IF Len(found) > max_files_per_glob
    THEN SubSeq(sort_by_mtime_reverse(found), 1, max_files_per_glob)
    ELSE found

InRepoOrder(fileset) == SelectSeq(RepoFiles, LAMBDA f : f \in fileset)
Reverse(list) == [i \in 1..Len(list) |-> list[Len(list) + 1 - i]]

\* matching: the files of the repository that the pattern matches.
ViewFilesAtGlobRun(matching) ==
    LET matching_files == CapByMtime(InRepoOrder(matching))
        kept == ToSet(matching_files)
    IN
    /\ abs_read_only_fnames' =
          abs_read_only_fnames \cup (kept \ (abs_fnames \cup abs_read_only_fnames))
    /\ UNCHANGED <<abs_fnames, recently_removed>>
    /\ CtxOnly(IF kept = {} THEN Op("ViewFilesAtGlob", None, "No files found matching")
               ELSE Details(Op("ViewFilesAtGlob", None, "Added files"),
                            <<Len(matching_files)>>))

\* defining: the files of the repository that define the symbol; set_order:
\* whether the iteration over the set found_files follows the repository
\* order or its reverse.
ViewFilesWithSymbolRun(defining, set_order) ==
    LET in_context == abs_fnames \cup abs_read_only_fnames
        files_to_search == ToSet(RepoFiles) \ in_context
        listed == InRepoOrder(defining \cap files_to_search)
        found_files == ToSet(CapByMtime(IF set_order = "reverse" THEN Reverse(listed)
                                        ELSE listed))
    IN
    IF defining \cap in_context # {}
    THEN Reports(Op("ViewFilesWithSymbol", None, "Symbol found in already loaded file(s)"))
    ELSE /\ abs_read_only_fnames' = abs_read_only_fnames \cup found_files
         /\ UNCHANGED <<abs_fnames, recently_removed>>
         /\ CtxOnly(IF found_files = {}
                    THEN Op("ViewFilesWithSymbol", None, "Symbol not found in searchable files")
                    ELSE Details(Op("ViewFilesWithSymbol", None,
                                    "Found symbol and added files as read-only."),
                                 <<Cardinality(found_files)>>))

\* What the disk holds for a path whose file has been deleted, and
\* os.path.isfile.
Absent == <<None>>
isfile(abs_path) == files[abs_path] # Absent

MakeEditableRun(file_path) ==
    LET abs_path == abs_root_path(file_path) IN
    IF abs_path \in abs_fnames
    THEN Reports(Op("MakeEditable", abs_path, "File is already editable"))
    ELSE IF ~isfile(abs_path)
    THEN Reports(Op("MakeEditable", abs_path, "Error: File not found"))
    ELSE /\ abs_read_only_fnames' = abs_read_only_fnames \ {abs_path}
         /\ abs_fnames' = abs_fnames \cup {abs_path}
         /\ UNCHANGED recently_removed
         /\ CtxOnly(Op("MakeEditable", abs_path,
                       IF abs_path \in abs_read_only_fnames
                       THEN "File is now editable (moved from read-only)"
                       ELSE "File is now editable (added directly)"))

MakeReadonlyRun(file_path) ==
    LET abs_path == abs_root_path(file_path) IN
    IF abs_path \notin abs_fnames
    THEN Reports(Op("MakeReadonly", abs_path,
                    IF abs_path \in abs_read_only_fnames
                    THEN "File is already read-only" ELSE "File not in context"))
    ELSE /\ abs_fnames' = abs_fnames \ {abs_path}
         /\ abs_read_only_fnames' = abs_read_only_fnames \cup {abs_path}
         /\ UNCHANGED recently_removed
         /\ CtxOnly(Op("MakeReadonly", abs_path, "File is now read-only"))

\* The two guards that refuse to remove the last file in context.
last_editable_off_by_one(ed, ro) == Cardinality(ed) < 1 /\ ro = {}
last_editable(ed, ro) == Cardinality(ed) <= 1 /\ ro = {}
last_read_only(ed, ro) == Cardinality(ro) <= 1 /\ ed = {}

RemoveRun(file_path) ==
    LET abs_path == abs_root_path(file_path)
        rel_path == get_rel_fname(abs_path)
        last_file == "Cannot remove - last file in context"
    IN
    IF abs_path \in abs_fnames
    THEN IF last_editable(abs_fnames, abs_read_only_fnames)
         THEN Reports(Op("Remove", abs_path, last_file))
         ELSE /\ abs_fnames' = abs_fnames \ {abs_path}
              /\ recently_removed' = recently_removed \cup {rel_path}
              /\ UNCHANGED abs_read_only_fnames
              /\ CtxOnly(Op("Remove", abs_path, "Removed file from context"))
    ELSE IF abs_path \in abs_read_only_fnames
    THEN IF last_read_only(abs_fnames, abs_read_only_fnames)
         THEN Reports(Op("Remove", abs_path, last_file))
         ELSE /\ abs_read_only_fnames' = abs_read_only_fnames \ {abs_path}
              /\ recently_removed' = recently_removed \cup {rel_path}
              /\ UNCHANGED abs_fnames
              /\ CtxOnly(Op("Remove", abs_path, "Removed file from context"))
    ELSE Reports(Op("Remove", abs_path, "File not in context"))

\* Coder.add_rel_fname (user adds a file to the chat).
add_rel_fname(rel_fname) ==
    /\ abs_fnames' = abs_fnames \cup {abs_root_path(rel_fname)}
    /\ UNCHANGED <<abs_read_only_fnames, recently_removed>>
    /\ CtxOnly(Op("add_rel_fname", abs_root_path(rel_fname), ""))

\* -------------------------------------------------------- change ledger
generate_change_id == GenIdSeq[Len(change_order) + 1]

\* ChangeTracker.track_change: the caller's id if one is given, else a newly
\* generated one.  Records are immutable once created, so an id that is
\* already in the ledger cannot be recorded again.
TrackId(change_id) == IF change_id = None THEN generate_change_id ELSE change_id
TrackRaises(change_id, track_fails) ==
    track_fails \/ TrackId(change_id) \in DOMAIN changes

ChangeRecord(rel_path, change_type, original, new) ==
    [file_path |-> rel_path, type |-> change_type, original |-> original,
     new |-> new, reverted |-> FALSE]

track_change(rel_path, change_type, original, new, change_id) ==
    /\ changes' = changes @@
          (TrackId(change_id) :> ChangeRecord(rel_path, change_type, original, new))
    /\ change_order' = Append(change_order, TrackId(change_id))

\* ChangeTracker.get_last_change: the most recent change to the file that
\* has not been reverted, or None.
LiveChangesOf(rel_path) ==
    { i \in 1..Len(change_order) :
        /\ changes[change_order[i]].file_path = rel_path
        /\ ~changes[change_order[i]].reverted }

get_last_change(rel_path) ==
    IF LiveChangesOf(rel_path) = {} THEN None
    ELSE change_order[CHOOSE i \in LiveChangesOf(rel_path) :
                         \A j \in LiveChangesOf(rel_path) : j <= i]

\* ChangeTracker.undo_change: fails for an unknown id and for a record that
\* is already reverted; otherwise marks the record reverted.
undo_change_status(change_id) ==
    IF change_id \notin DOMAIN changes THEN "NotFound"
    ELSE IF changes[change_id].reverted THEN "AlreadyReverted"
    ELSE "ok"

\* ----------------------------------------------------------- edit tools
EditOp(tool, abs_path, result, final_id, new, same) ==
    [tool |-> tool, path |-> abs_path, result |-> result, change_id |-> final_id,
     write |-> [path |-> abs_path, content |-> new],
     was_editable |-> abs_path \in abs_fnames, same |-> same, detail |-> <<>>]

\* A run of an edit tool that did not write; same tells whether the requested
\* replacement equals the text it replaces.
EditReport(tool, abs_path, result, same) ==
    Reports([Op(tool, abs_path, result) EXCEPT !.same = same])

LogEntry(final_id, abs_path, original, new) ==
    [id |-> final_id, path |-> abs_path, before |-> original, after |-> new]

\* ReplaceLine's own write-then-track sequence: a failure to record the
\* change is swallowed and reported as change id TRACKING_FAILED.
ReplaceLineApply(abs_path, rel_path, original, new, change_id, track_fails, same) ==
    LET final_id == IF TrackRaises(change_id, track_fails)
                    THEN TRACKING_FAILED ELSE TrackId(change_id)
    IN
    /\ files' = [files EXCEPT ![abs_path] = new]
    /\ IF TrackRaises(change_id, track_fails)
       THEN UNCHANGED ledger_vars
       ELSE track_change(rel_path, "replaceline", original, new, change_id)
    /\ aider_edited_files' = aider_edited_files \cup {rel_path}
    /\ last_op' = EditOp("ReplaceLine", abs_path, "Successfully replaced line",
                         final_id, new, same)
    /\ edit_log' = Append(edit_log, LogEntry(final_id, abs_path, original, new))
    /\ UNCHANGED <<ctx_vars, registry_vars, undo_count>>

ReplaceLineRun_ignores_dry_run(file_path, line_number, new_content, change_id, dry_run, track_fails) ==
    LET abs_path == abs_root_path(file_path)
        lines == splitlines(files[abs_path])
        new_content_full == join_nl([lines EXCEPT ![line_number] = new_content])
    IN
    IF /\ abs_path \in abs_fnames
       /\ line_number \in 1..Len(lines)
       /\ files[abs_path] # new_content_full
    THEN ReplaceLineApply(abs_path, get_rel_fname(abs_path), files[abs_path],
                          new_content_full, change_id, track_fails, FALSE)
    ELSE Reports(Op("ReplaceLine", abs_path, "Error: File not in context"))

ReplaceLineRun(file_path, line_number, new_content, change_id, dry_run, track_fails) ==
    LET abs_path == abs_root_path(file_path)
        rel_path == get_rel_fname(abs_path)
        file_content == files[abs_path]
        lines == splitlines(file_content)
        idx == line_number - 1
        new_lines == [lines EXCEPT ![idx + 1] = new_content]
        new_content_full == join_nl(new_lines)
        same == lines[idx + 1] = new_content
    IN
    IF abs_path \notin abs_fnames
    THEN Reports(Op("ReplaceLine", abs_path,
                    IF abs_path \in abs_read_only_fnames
                    THEN "Error: File is read-only. Use MakeEditable first."
                    ELSE "Error: File not in context"))
    ELSE IF idx < 0 \/ idx >= Len(lines)
    THEN Reports(Details(Op("ReplaceLine", abs_path, "Error: Line number out of range"),
                         <<line_number>>))
    ELSE IF file_content = new_content_full
    THEN EditReport("ReplaceLine", abs_path,
                    "Warning: No changes made (new content identical to original)", same)
    ELSE IF dry_run
    THEN EditReport("ReplaceLine", abs_path, "Dry run: Would replace line", same)
    ELSE ReplaceLineApply(abs_path, rel_path, file_content, new_content_full,
                          change_id, track_fails, same)

\* tool_utils.validate_file_for_edit: "" when the file may be edited, else
\* the error the edit is rejected with.
validate_file_for_edit(abs_path) ==
    IF abs_path \in abs_fnames THEN ""
    ELSE IF abs_path \in abs_read_only_fnames
    THEN "Error: File is read-only. Use MakeEditable first."
    ELSE "Error: File not in context"

\* tool_utils.apply_change: write the file, then create the change record.
\* A failure to record the change reaches the handler as an error.
apply_change(tool, abs_path, rel_path, original, new, change_type, change_id, track_fails, success, same) ==
    /\ files' = [files EXCEPT ![abs_path] = new]
    /\ IF TrackRaises(change_id, track_fails)
       THEN /\ UNCHANGED <<ledger_vars, aider_edited_files>>
            /\ last_op' = EditOp(tool, abs_path, "Error: could not record change",
                                 None, new, same)
            /\ edit_log' = Append(edit_log, LogEntry(None, abs_path, original, new))
       ELSE /\ track_change(rel_path, change_type, original, new, change_id)
            /\ aider_edited_files' = aider_edited_files \cup {rel_path}
            /\ last_op' = EditOp(tool, abs_path, success, TrackId(change_id),
                                 new, same)
            /\ edit_log' = Append(edit_log,
                                  LogEntry(TrackId(change_id), abs_path, original, new))
    /\ UNCHANGED <<ctx_vars, registry_vars, undo_count>>

\* Coder._find_occurrences: start offsets (1-based here) of find_text, kept
\* only if near_context occurs within ContextRadius characters around them.
ContextRadius == 1

Contains(s, pat) == \E j \in 1..Len(s) : StartsAt(s, pat, j)

Window(s, i, n) ==
    SubSeq(s, IF i - ContextRadius < 1 THEN 1 ELSE i - ContextRadius,
              IF i + n - 1 + ContextRadius > Len(s) THEN Len(s)
              ELSE i + n - 1 + ContextRadius)

RECURSIVE OccurrencesFrom(_, _, _, _)
OccurrencesFrom(s, pat, near_context, i) ==
    IF i > Len(s) THEN <<>>
    ELSE IF /\ StartsAt(s, pat, i)
            /\ (near_context = None \/ Contains(Window(s, i, Len(pat)), near_context))
         THEN <<i>> \o OccurrencesFrom(s, pat, near_context, i + 1)
         ELSE OccurrencesFrom(s, pat, near_context, i + 1)

find_occurrences(s, pat, near_context) == OccurrencesFrom(s, pat, near_context, 1)

\* The 1-based position in the occurrence list that an occurrence argument
\* selects: -1 selects the last one.
select_occurrence_first_for_last(occurrence, num_occurrences) == IF occurrence = -1 THEN 1 ELSE occurrence
select_occurrence(occurrence, num_occurrences) == IF occurrence = -1 THEN num_occurrences ELSE occurrence

ReplaceTextRun_clamps_occurrence(file_path, find_text, replace_text, near_context, occurrence, change_id, dry_run, track_fails) ==
    LET abs_path == abs_root_path(file_path)
        rel_path == get_rel_fname(abs_path)
        rejected == validate_file_for_edit(abs_path)
        original_content == files[abs_path]
        occurrences == find_occurrences(original_content, find_text, near_context)
        num_occurrences == Len(occurrences)
        target_idx == IF 1 <= occurrence /\ occurrence <= num_occurrences THEN occurrence ELSE num_occurrences
        start_index == occurrences[target_idx]
        new_content == SubSeq(original_content, 1, start_index - 1)
                         \o replace_text
                         \o SubSeq(original_content, start_index + Len(find_text),
                                   Len(original_content))
    IN
    IF rejected # ""
    THEN Reports(Op("ReplaceText", abs_path, rejected))
    ELSE IF num_occurrences = 0
    THEN Reports(Op("ReplaceText", abs_path, "Error: Text not found"))
    ELSE IF original_content = new_content
    THEN EditReport("ReplaceText", abs_path,
                    "Warning: No changes made (replacement identical to original)",
                    replace_text = find_text)
    ELSE IF dry_run
    THEN EditReport("ReplaceText", abs_path, "Dry run: Would replace",
                    replace_text = find_text)
    ELSE apply_change("ReplaceText", abs_path, rel_path, original_content, new_content,
                      "replacetext", change_id, track_fails, "Replaced text",
                      replace_text = find_text)

ReplaceTextRun(file_path, find_text, replace_text, near_context, occurrence, change_id, dry_run, track_fails) ==
    LET abs_path == abs_root_path(file_path)
        rel_path == get_rel_fname(abs_path)
        rejected == validate_file_for_edit(abs_path)
        original_content == files[abs_path]
        occurrences == find_occurrences(original_content, find_text, near_context)
        num_occurrences == Len(occurrences)
        target_idx == select_occurrence(occurrence, num_occurrences)
        start_index == occurrences[target_idx]
        new_content == SubSeq(original_content, 1, start_index - 1)
                         \o replace_text
                         \o SubSeq(original_content, start_index + Len(find_text),
                                   Len(original_content))
    IN
    IF rejected # ""
    THEN Reports(Op("ReplaceText", abs_path, rejected))
    ELSE IF num_occurrences = 0
    THEN Reports(Op("ReplaceText", abs_path, "Error: Text not found"))
    ELSE IF ~(occurrence = -1 \/ (1 <= occurrence /\ occurrence <= num_occurrences))
    THEN Reports(Details(Op("ReplaceText", abs_path,
                            "Error: Occurrence number out of range"),
                         <<occurrence, num_occurrences>>))
    ELSE IF original_content = new_content
    THEN EditReport("ReplaceText", abs_path,
                    "Warning: No changes made (replacement identical to original)",
                    replace_text = find_text)
    ELSE IF dry_run
    THEN EditReport("ReplaceText", abs_path, "Dry run: Would replace",
                    replace_text = find_text)
    ELSE apply_change("ReplaceText", abs_path, rel_path, original_content, new_content,
                      "replacetext", change_id, track_fails, "Replaced text",
                      replace_text = find_text)

ReplaceAllRun(file_path, find_text, replace_text, change_id, dry_run, track_fails) ==
    LET abs_path == abs_root_path(file_path)
        rel_path == get_rel_fname(abs_path)
        rejected == validate_file_for_edit(abs_path)
        original_content == files[abs_path]
        count == str_count(original_content, find_text)
        new_content == str_replace(original_content, find_text, replace_text)
    IN
    IF rejected # ""
    THEN Reports(Op("ReplaceAll", abs_path, rejected))
    ELSE IF count = 0
    THEN Reports(Op("ReplaceAll", abs_path, "Warning: Text not found in file"))
    ELSE IF original_content = new_content
    THEN EditReport("ReplaceAll", abs_path,
                    "Warning: No changes made (replacement identical to original)",
                    replace_text = find_text)
    ELSE IF dry_run
    THEN EditReport("ReplaceAll", abs_path, "Dry run: Would replace",
                    replace_text = find_text)
    ELSE apply_change("ReplaceAll", abs_path, rel_path, original_content, new_content,
                      "replaceall", change_id, track_fails, "Replaced occurrences",
                      replace_text = find_text)

DeleteLinesRun(file_path, start_line, end_line, change_id, dry_run, track_fails) ==
    LET abs_path == abs_root_path(file_path)
        rel_path == get_rel_fname(abs_path)
        file_content == files[abs_path]
        lines == splitlines(file_content)
        new_lines == SubSeq(lines, 1, start_line - 1)
                        \o SubSeq(lines, end_line + 1, Len(lines))
        new_content == join_nl(new_lines)
    IN
    IF abs_path \notin abs_fnames
    THEN Reports(Op("DeleteLines", abs_path,
                    IF abs_path \in abs_read_only_fnames
                    THEN "Error: File is read-only. Use MakeEditable first."
                    ELSE "Error: File not in context"))
    ELSE IF start_line < 1 \/ start_line > Len(lines)
    THEN Reports(Details(Op("DeleteLines", abs_path, "Error: Start line is out of range"),
                         <<start_line, 1, Len(lines)>>))
    ELSE IF end_line < 1 \/ end_line > Len(lines)
    THEN Reports(Details(Op("DeleteLines", abs_path, "Error: End line is out of range"),
                         <<end_line, 1, Len(lines)>>))
    ELSE IF start_line > end_line
    THEN Reports(Details(Op("DeleteLines", abs_path,
                            "Error: Start line cannot be after end line"),
                         <<start_line, end_line>>))
    ELSE IF file_content = new_content
    THEN Reports(Op("DeleteLines", abs_path, "Warning: No changes made"))
    ELSE IF dry_run
    THEN Reports(Op("DeleteLines", abs_path, "Dry run: Would delete lines"))
    ELSE apply_change("DeleteLines", abs_path, rel_path, file_content, new_content,
                      "deletelines", change_id, track_fails, "Deleted lines", FALSE)

\* ------------------------------------------------- ShowNumberedContext
\* The numbered lines within context_lines of line_number, read from the
\* file at the time of the call; nothing is changed.
ShowNumberedContextRun(file_path, line_number, context_lines) ==
    LET abs_path == abs_root_path(file_path)
        lines == splitlines(files[abs_path])
        num_lines == Len(lines)
        center_line_idx == line_number - 1
        start_line_idx == IF center_line_idx - context_lines < 0 THEN 0
                          ELSE center_line_idx - context_lines
        end_line_idx == IF center_line_idx + context_lines > num_lines - 1
                        THEN num_lines - 1 ELSE center_line_idx + context_lines
        output_lines == [k \in 1..(end_line_idx - start_line_idx + 1) |->
                            <<start_line_idx + k, lines[start_line_idx + k]>>]
    IN
    IF ~(1 <= line_number /\ line_number <= num_lines)
    THEN Reports(Details(Op("ShowNumberedContext", abs_path,
                            "Error: Line number is out of range"),
                         <<line_number, 1, num_lines>>))
    ELSE Reports(Details(Op("ShowNumberedContext", abs_path, "Displaying context around"),
                         output_lines))

\* ------------------------------------------------------------- undo
UndoWrite_new_content(change_info) == change_info.new
UndoWrite(change_info) == change_info.original

UndoChangeRun(change_id_arg, file_path) ==
    LET rel_arg == IF file_path = None THEN None
                   ELSE get_rel_fname(abs_root_path(file_path))
        change_id == IF file_path # None THEN get_last_change(rel_arg)
                     ELSE change_id_arg
        status == undo_change_status(change_id)
        change_info == changes[change_id]
        abs_path == abs_root_path(change_info.file_path)
    IN
    IF change_id_arg = None /\ file_path = None
    THEN Reports(Op("UndoChange", None,
                    "Error: Must specify either change_id or file_path"))
    ELSE IF file_path # None /\ change_id = None
    THEN Reports(Op("UndoChange", abs_root_path(file_path),
                    "Error: No changes found for file"))
    ELSE IF status # "ok"
    THEN Reports([Op("UndoChange", None,
                     IF status = "NotFound" THEN "Error: Change ID not found"
                     ELSE "Error: Change already reverted")
                  EXCEPT !.change_id = change_id])
    ELSE /\ changes' = [changes EXCEPT ![change_id].reverted = TRUE]
         /\ files' = [files EXCEPT ![abs_path] = UndoWrite(change_info)]
         /\ aider_edited_files' = aider_edited_files \cup {change_info.file_path}
         /\ last_op' = [tool |-> "UndoChange", path |-> abs_path,
                        result |-> "Successfully undid change",
                        change_id |-> change_id,
                        write |-> [path |-> abs_path,
                                   content |-> UndoWrite(change_info)],
                        was_editable |-> abs_path \in abs_fnames,
                        same |-> FALSE, detail |-> <<>>]
         /\ undo_count' = [undo_count EXCEPT ![change_id] = @ + 1]
         /\ UNCHANGED <<ctx_vars, change_order, edit_log, registry_vars>>

\* UndoChange.run when io.write_text raises: the tracker has marked the record
\* reverted (line 63) before the write of line 73 is attempted, and the
\* handler of line 91 turns the exception into the result.
UndoChangeWriteRaises(change_id_arg, file_path) ==
    LET rel_arg == IF file_path = None THEN None
                   ELSE get_rel_fname(abs_root_path(file_path))
        change_id == IF file_path # None THEN get_last_change(rel_arg)
                     ELSE change_id_arg
    IN
    IF change_id = None \/ undo_change_status(change_id) # "ok"
    THEN UndoChangeRun(change_id_arg, file_path)
    ELSE /\ changes' = [changes EXCEPT ![change_id].reverted = TRUE]
         /\ last_op' = [Op("UndoChange", abs_root_path(changes[change_id].file_path),
                           "Error: write failed")
                        EXCEPT !.change_id = change_id]
         /\ UNCHANGED <<files, ctx_vars, change_order, aider_edited_files, edit_log,
                        registry_vars, undo_count>>

\* ------------------------------------------------- dynamic tool loading
\* What get_tool_definition returns, by the parts validate_tool_definition
\* looks at.  A part that is missing is None; parameters is a valid JSON
\* Schema ("schema"), an object that is not one ("bad_schema") or not an
\* object ("list"); returns is absent (None), carries type and description
\* ("full"), lacks the description ("no_description") or carries one more
\* key ("extra"); extra says the function object has a key the schema does
\* not name.
PatternNames == {"MyTool", "REMOVE"}
OtherNames == {"my tool", ""}
CustomToolNames == {"MyTool"}

GoodDefinition(name) ==
    [type |-> "function", name |-> name, description |-> "text",
     parameters |-> "schema", returns |-> None, extra |-> FALSE]

ToolDefinitions ==
    LET good == GoodDefinition("MyTool")
    IN { GoodDefinition(n) : n \in PatternNames }
       \cup { [good EXCEPT !.returns = "full"] }
       \cup { [good EXCEPT !.type = t] : t \in {"tool", None} }
       \cup { [good EXCEPT !.name = n] : n \in OtherNames \cup {None} }
       \cup { [good EXCEPT !.description = None] }
       \cup { [good EXCEPT !.parameters = q] : q \in {"bad_schema", "list", None} }
       \cup { [good EXCEPT !.returns = r] : r \in {"no_description", "extra"} }
       \cup { [good EXCEPT !.extra = TRUE] }

\* NavigatorCoder.validate_tool_definition: TRUE where it returns, FALSE where
\* it raises ValueError.
validate_tool_definition_skips_check_schema(tool_definition) ==
    /\ tool_definition.type = "function"
    /\ tool_definition.name \in PatternNames
    /\ tool_definition.description # None
    /\ tool_definition.parameters \in {"schema", "bad_schema"}
    /\ tool_definition.returns \in {None, "full"}
    /\ ~tool_definition.extra
validate_tool_definition(tool_definition) ==
    /\ tool_definition.type = "function"
    /\ tool_definition.name \in PatternNames
    /\ tool_definition.description # None
    /\ tool_definition.parameters \in {"schema", "bad_schema"}
    /\ tool_definition.returns \in {None, "full"}
    /\ ~tool_definition.extra
    /\ tool_definition.parameters = "schema"

\* A tool file: whether its name ends in .py, whether exec_module returns,
\* and the BaseAiderTool subclasses among the module's members in the order
\* of inspect.getmembers (by member name).
ClassNames == <<"ToolA", "ToolB">>
ToolClass(class, definition) == [class |-> class, definition |-> definition]
ToolModule(py, execs, classes) == [py |-> py, execs |-> execs, classes |-> classes]
ToolModules ==
    { ToolModule(FALSE, TRUE, <<>>), ToolModule(TRUE, FALSE, <<>>),
      ToolModule(TRUE, TRUE, <<>>) }
    \cup { ToolModule(TRUE, TRUE, <<ToolClass(ClassNames[i], d)>>) :
             i \in 1..2, d \in ToolDefinitions }
    \cup { ToolModule(TRUE, TRUE, <<ToolClass(ClassNames[1], d), ToolClass(ClassNames[2], e)>>) :
             d \in ToolDefinitions, e \in { GoodDefinition(n) : n \in PatternNames } }
CallModules ==
    { ToolModule(TRUE, TRUE, <<>>) }
    \cup { ToolModule(TRUE, TRUE, <<ToolClass(ClassNames[1], GoodDefinition(n))>>) :
             n \in CustomToolNames }

\* lines 732-746: the first tool class found is instantiated and validated
LoadsTool(module) ==
    /\ module.execs
    /\ module.classes # <<>>
    /\ validate_tool_definition(Head(module.classes).definition)

local_tools_entry_index ==
    IF \E i \in 1..Len(mcp_tools) : mcp_tools[i][1] = LOCAL_TOOLS
    THEN CHOOSE i \in 1..Len(mcp_tools) :
            /\ mcp_tools[i][1] = LOCAL_TOOLS
            /\ \A j \in 1..(i - 1) : mcp_tools[j][1] # LOCAL_TOOLS
    ELSE 0

\* lines 748-781: the instance is stored under the definition's name and its
\* definition replaces those of that name in the local_tools entry
RegisterTool(tool_class) ==
    LET tool_name == tool_class.definition.name
        tool_definition == Definition(tool_name, tool_class.class)
        OtherName(t) == t.name # tool_name
    IN /\ local_tool_instances' = (tool_name :> tool_class) @@ local_tool_instances
       /\ mcp_tools' =
            IF local_tools_entry_index # 0
            THEN [mcp_tools EXCEPT ![local_tools_entry_index] =
                    <<LOCAL_TOOLS, Append(SelectSeq(@[2], OtherName), tool_definition)>>]
            ELSE Append(mcp_tools, <<LOCAL_TOOLS, <<tool_definition>> >>)
       /\ custom_tools' = custom_tools \cup {tool_name}
       /\ UNCHANGED use_granular_editing

\* NavigatorCoder.tool_add_from_path: a file that is not a Python file is
\* ignored; a tool that loads and validates is registered under its
\* definition's name; after a failed load the user may add the tool's file to
\* the chat.
tool_add_from_path(file_path, module, confirmed) ==
    IF ~module.py
    THEN Reports(Op("tool_add_from_path", abs_root_path(file_path), ""))
    ELSE IF LoadsTool(module)
    THEN /\ RegisterTool(Head(module.classes))
         /\ last_op' = Op("tool_add_from_path", abs_root_path(file_path),
                          "Successfully loaded tool")
         /\ UNCHANGED <<files, ctx_vars, ledger_vars, aider_edited_files, edit_log,
                        undo_count>>
    ELSE IF confirmed
    THEN add_rel_fname(get_rel_fname(abs_root_path(file_path)))
    ELSE Reports(Op("tool_add_from_path", abs_root_path(file_path),
                    "Error loading tool"))

\* ------------------------------------------------- tool calls with inputs
ChangeIdArgs == UserChangeIds \cup {None}
UndoIdArgs == UserChangeIds \cup {"g1", "g2", TRACKING_FAILED, None}

ViewCall == \E f \in RelInputs, c \in BOOLEAN : ViewRun(f, c)
ViewFilesAtGlobCall == \E m \in SUBSET AbsPaths : ViewFilesAtGlobRun(m)
SetOrders == {"repository", "reverse"}
ViewFilesWithSymbolCall == \E d \in SUBSET AbsPaths, o \in SetOrders : ViewFilesWithSymbolRun(d, o)
MakeEditableCall == \E f \in RelInputs : MakeEditableRun(f)
MakeReadonlyCall == \E f \in RelInputs : MakeReadonlyRun(f)
RemoveCall == \E f \in RelInputs : RemoveRun(f)
EditsLeft == Len(edit_log) < MaxEdits
ReplaceLineCall ==
    /\ EditsLeft
    /\ \E f \in RelInputs, n \in LineArgs, t \in LineTexts, c \in ChangeIdArgs,
          d \in BOOLEAN, tf \in BOOLEAN : ReplaceLineRun(f, n, t, c, d, tf)
DeleteLinesCall ==
    /\ EditsLeft
    /\ \E f \in RelInputs, a \in LineArgs, b \in LineArgs, c \in ChangeIdArgs,
          d \in BOOLEAN, tf \in BOOLEAN : DeleteLinesRun(f, a, b, c, d, tf)
ReplaceTextCall ==
    /\ EditsLeft
    /\ \E f \in RelInputs, ft \in FindTexts, rt \in ReplaceTexts,
          nc \in NearContextArgs, o \in OccurrenceArgs, c \in ChangeIdArgs,
          d \in BOOLEAN, tf \in BOOLEAN : ReplaceTextRun(f, ft, rt, nc, o, c, d, tf)
ReplaceAllCall ==
    /\ EditsLeft
    /\ \E f \in RelInputs, ft \in FindTexts, rt \in ReplaceTexts, c \in ChangeIdArgs,
          d \in BOOLEAN, tf \in BOOLEAN : ReplaceAllRun(f, ft, rt, c, d, tf)
UndoChangeCall ==
    \E c \in UndoIdArgs, f \in RelInputs \cup {None} : UndoChangeRun(c, f)
ToolAddFromPathCall ==
    \E f \in RelInputs, m \in CallModules, c \in BOOLEAN :
        tool_add_from_path(f, m, c)

\* ---------------------------------------------------------- rendering
\* The files in context as they are put in the prompt.  threshold is the
\* coder's large_file_token_threshold, large the files whose token count
\* (main_model.token_count) exceeds it, unreadable the files for which
\* io.read_text returns None.
large_file_token_threshold == 25000
Thresholds == {1, 80, 160, large_file_token_threshold}
TRUNCATION_MARKER == "\n\n... [File truncated due to size] ...\n\n"

\* lines[: keep_lines // 2], the marker, lines[-(keep_lines // 2) :]
truncate(content, threshold) ==
    LET lines == splitlines(content)
        n == Len(lines)
        half == (threshold \div 40) \div 2
        first_chunk == SubSeq(lines, 1, IF half < n THEN half ELSE n)
        last_chunk == IF half = 0 THEN lines
                      ELSE SubSeq(lines, IF n - half + 1 < 1 THEN 1 ELSE n - half + 1, n)
    IN join_nl(first_chunk) \o <<TRUNCATION_MARKER>> \o join_nl(last_chunk)

\* One entry of the prompt per file rendered: its relative name and its text.
prompt_of(fnames, large, enabled, threshold) ==
    LET listed == InRepoOrder(fnames) IN
    [i \in 1..Len(listed) |->
        <<get_rel_fname(listed[i]),
          IF enabled /\ listed[i] \in large THEN truncate(files[listed[i]], threshold)
          ELSE files[listed[i]]>>]

GetFilesContentRun_saves_prompt(unreadable, large, enabled, threshold) ==
    LET kept == abs_fnames \ unreadable
        prompt == prompt_of(kept, large, enabled, threshold)
    IN
    /\ abs_fnames' = kept
    /\ files' = [f \in AbsPaths |-> IF f \in kept /\ f \in large /\ enabled
                                    THEN truncate(files[f], threshold) ELSE files[f]]
    /\ last_op' = [Op("get_files_content", None, "") EXCEPT !.detail = prompt]
    /\ UNCHANGED <<abs_read_only_fnames, recently_removed, ledger_vars, aider_edited_files,
                   edit_log, registry_vars, undo_count>>
GetFilesContentRun(unreadable, large, enabled, threshold) ==
    LET kept == abs_fnames \ unreadable IN
    /\ abs_fnames' = kept
    /\ UNCHANGED <<abs_read_only_fnames, recently_removed>>
    /\ CtxOnly([Op("get_files_content", None, "")
                EXCEPT !.detail = prompt_of(kept, large, enabled, threshold),
                       !.warned = abs_fnames \cap unreadable])

GetReadOnlyFilesContentRun(unreadable, large, enabled, threshold) ==
    Reports([Op("get_read_only_files_content", None, "")
             EXCEPT !.detail = prompt_of(abs_read_only_fnames \ unreadable,
                                         large, enabled, threshold)])

\* ------------------------------------------------------ shell commands
\* Command.run: confirmed is what io.confirm_ask returned for the command
\* string; started is the command handed to run_cmd_subprocess.
CommandRun(command_string, confirmed, exit_status) ==
    IF ~confirmed
    THEN Reports(Op("Command", None, "Shell command execution skipped by user."))
    ELSE Reports([Op("Command", None,
                     IF exit_status = 0 THEN "Shell command executed successfully (exit code 0)."
                     ELSE "Shell command failed with exit code")
                  EXCEPT !.started = command_string])

\* CommandInteractive.run hands the command to run_cmd.
CommandInteractiveRun(command_string, exit_status) ==
    Reports([Op("CommandInteractive", None,
                IF exit_status = 0 THEN "Interactive command finished successfully (exit code 0)."
                ELSE "Interactive command finished with exit code")
             EXCEPT !.started = command_string])

\* ------------------------------------------------- the session, tool by tool
NoTurn_any_time == UNCHANGED turn_vars
NoTurn == pc = "idle" /\ UNCHANGED turn_vars
Idle == NoTurn /\ last_args' = NoArgs

View == Idle /\ ViewCall
ViewFilesAtGlob == Idle /\ ViewFilesAtGlobCall
ViewFilesWithSymbol == Idle /\ ViewFilesWithSymbolCall
MakeEditable == Idle /\ MakeEditableCall
MakeReadonly == Idle /\ MakeReadonlyCall
Remove == Idle /\ RemoveCall
AddRelFname == Idle /\ \E f \in RelInputs : add_rel_fname(f)
ToolAddFromPath == Idle /\ ToolAddFromPathCall
ReplaceLine == Idle /\ ReplaceLineCall
DeleteLines == Idle /\ DeleteLinesCall
ReplaceText == Idle /\ ReplaceTextCall
ReplaceAll == Idle /\ ReplaceAllCall
UndoChange == Idle /\ UndoChangeCall

\* The confirmation recorded is the one the tool obtained: CommandInteractive
\* asks for none.
Command ==
    /\ NoTurn
    /\ \E c \in {"ls", "make"}, confirmed \in BOOLEAN, e \in {0, 1} :
          /\ CommandRun(c, confirmed, e)
          /\ last_args' = [tool |-> "Command", command_string |-> c, confirmed |-> confirmed]

CommandInteractive ==
    /\ NoTurn
    /\ \E c \in {"ls", "make"}, e \in {0, 1} :
          /\ CommandInteractiveRun(c, e)
          /\ last_args' = [tool |-> "CommandInteractive", command_string |-> c, confirmed |-> FALSE]

\* Context management: tools and user actions that change the two sets.
Next ==
    \/ View \/ ViewFilesAtGlob \/ ViewFilesWithSymbol
    \/ MakeEditable \/ MakeReadonly \/ Remove \/ AddRelFname \/ ToolAddFromPath
    \/ Command \/ CommandInteractive

Spec == Init /\ [][Next]_vars

\* Editing: the edit tools and undo, with the mode changes between them.
NextEdit ==
    \/ ReplaceLine \/ DeleteLines \/ ReplaceText \/ ReplaceAll \/ UndoChange
    \/ MakeEditable \/ MakeReadonly \/ Remove

SpecEdit == Init /\ [][NextEdit]_vars

\* Rendering: the files in context are rendered between edits, some of them
\* unreadable or large at the time.
NextRender ==
    \/ ReplaceLine
    \/ NoTurn /\ \E u \in SUBSET AbsPaths, l \in SUBSET AbsPaths, e \in BOOLEAN, t \in Thresholds : GetFilesContentRun(u, l, e, t) /\ last_args' = [tool |-> "get_files_content", unreadable |-> u, large |-> l, enabled |-> e, threshold |-> t]
    \/ NoTurn /\ \E u \in SUBSET AbsPaths, l \in SUBSET AbsPaths, e \in BOOLEAN, t \in Thresholds : GetReadOnlyFilesContentRun(u, l, e, t) /\ last_args' = [tool |-> "get_read_only_files_content", unreadable |-> u, large |-> l, enabled |-> e, threshold |-> t]

SpecRender == Init /\ [][NextRender]_vars

\* ------------------------------------------------- one edit request
\* A single request to an edit tool, with its parameters kept, on a coder
\* whose file a has any of the contents below and is in either set, in both
\* or in none.
ToolContents == { <<"x", NL, "x", NL, "x", NL>>, <<"x", NL, "y">>, <<"y", "x">>, <<>> }
ToolLineArgs == 0..4
ToolOccurrenceArgs == {-2, -1, 0, 1, 2, 3, 4}
ToolNearContextArgs == {None, <<"y">>}

InitTool ==
    /\ \E c \in ToolContents : files = [InitFiles EXCEPT !["/r/a"] = c]
    /\ InitCoder

FirstRequest == NoTurn /\ last_args = NoArgs

ReplaceLineReq ==
    /\ FirstRequest
    /\ \E f \in RelInputs, n \in ToolLineArgs, t \in LineTexts, c \in ChangeIdArgs, d \in BOOLEAN, tf \in BOOLEAN :
          /\ ReplaceLineRun(f, n, t, c, d, tf)
          /\ last_args' = [tool |-> "ReplaceLine", file_path |-> f, line_number |-> n,
                           new_content |-> t, dry_run |-> d]

DeleteLinesReq ==
    /\ FirstRequest
    /\ \E f \in RelInputs, a \in ToolLineArgs, b \in ToolLineArgs, c \in ChangeIdArgs, d \in BOOLEAN, tf \in BOOLEAN :
          /\ DeleteLinesRun(f, a, b, c, d, tf)
          /\ last_args' = [tool |-> "DeleteLines", file_path |-> f, start_line |-> a,
                           end_line |-> b, dry_run |-> d]

ReplaceTextReq ==
    /\ FirstRequest
    /\ \E f \in RelInputs, ft \in FindTexts, rt \in ReplaceTexts, nc \in ToolNearContextArgs, o \in ToolOccurrenceArgs, c \in ChangeIdArgs, d \in BOOLEAN, tf \in BOOLEAN :
          /\ ReplaceTextRun(f, ft, rt, nc, o, c, d, tf)
          /\ last_args' = [tool |-> "ReplaceText", file_path |-> f, find_text |-> ft,
                           replace_text |-> rt, near_context |-> nc, occurrence |-> o,
                           dry_run |-> d]

ReplaceAllReq ==
    /\ FirstRequest
    /\ \E f \in RelInputs, ft \in FindTexts, rt \in ReplaceTexts, c \in ChangeIdArgs, d \in BOOLEAN, tf \in BOOLEAN :
          /\ ReplaceAllRun(f, ft, rt, c, d, tf)
          /\ last_args' = [tool |-> "ReplaceAll", file_path |-> f, find_text |-> ft,
                           replace_text |-> rt, dry_run |-> d]

NextTool == ReplaceLineReq \/ DeleteLinesReq \/ ReplaceTextReq \/ ReplaceAllReq

SpecTool == InitTool /\ [][NextTool]_vars

\* ------------------------------------------------- one discovery request
\* One ViewFilesAtGlob or ViewFilesWithSymbol request whose candidates are
\* all the files of the repository but at most two, or a few files.
GlobMatches ==
    { ToSet(RepoFiles) \ {RepoFiles[i], RepoFiles[j]} : i, j \in 1..Len(RepoFiles) }
        \cup { ToSet(SubSeq(RepoFiles, 1, k)) : k \in 0..3 }

InitGlob ==
    /\ Init
    /\ abs_fnames \subseteq {"/r/a"}
    /\ abs_read_only_fnames \subseteq {"/r/b"}

ViewFilesAtGlobReq ==
    /\ FirstRequest
    /\ \E m \in GlobMatches :
          /\ ViewFilesAtGlobRun(m)
          /\ last_args' = [tool |-> "ViewFilesAtGlob", matching |-> m]

ViewFilesWithSymbolReq ==
    /\ FirstRequest
    /\ \E d \in GlobMatches, o \in SetOrders :
          /\ ViewFilesWithSymbolRun(d, o)
          /\ last_args' = [tool |-> "ViewFilesWithSymbol", defining |-> d, set_order |-> o]

NextGlob == ViewFilesAtGlobReq \/ ViewFilesWithSymbolReq

SpecGlob == InitGlob /\ [][NextGlob]_vars

\* ------------------------------------------------------------ dispatcher
\* _execute_local_tool_calls.  The raw argument string of a tool call is a
\* sequence of tokens: a JSON object that fits the handler's parameters
\* ("obj"), a JSON object that does not ("badobj"), a JSON value that is not
\* an object ("nonobj"), text that does not parse ("junk") and white space
\* ("ws").
MaxCalls == 2          \* tool calls in one turn
MaxTokens == 2         \* tokens in one raw argument string

ArgTokens == {"obj", "badobj", "nonobj", "junk", "ws"}
ToolNames == {"ReplaceLine", "REMOVE", "UndoChange", "DeleteLines",
              "ShowNumberedContext", "MyTool", "mytool", "Bogus"}
CallIds == {"t1", "t2"}
BLANK_LINE == "\n\n"

ArgStrings == UNION { [1..n -> ArgTokens] : n \in 0..MaxTokens }
ToolCalls == [id : CallIds, name : ToolNames, arguments : ArgStrings]
Turns == { t \in UNION { [1..n -> ToolCalls] : n \in 0..MaxCalls } :
             \A i, j \in 1..Len(t) : i # j => t[i].id # t[j].id }

lower(name) ==
    CASE name = "ReplaceLine" -> "replaceline"
      [] name = "REMOVE" -> "remove"
      [] name = "UndoChange" -> "undochange"
      [] name = "DeleteLines" -> "deletelines"
      [] name = "ShowNumberedContext" -> "shownumberedcontext"
      [] name = "MyTool" -> "mytool"
      [] name = "mytool" -> "mytool"
      [] name = "Bogus" -> "bogus"
      [] name = "ViewFilesAtGlob" -> "viewfilesatglob"
      [] name = "Ls" -> "ls"
      [] name = "View" -> "view"
      [] name = "Remove" -> "remove"
      [] name = "MakeEditable" -> "makeeditable"
      [] name = "MakeReadonly" -> "makereadonly"
      [] name = "ViewFilesWithSymbol" -> "viewfileswithsymbol"
      [] name = "Command" -> "command"
      [] name = "CommandInteractive" -> "commandinteractive"
      [] name = "ReplaceText" -> "replacetext"
      [] name = "ReplaceAll" -> "replaceall"
      [] name = "ListChanges" -> "listchanges"

\* str.strip
RECURSIVE lstrip(_)
lstrip(s) == IF s # <<>> /\ Head(s) = "ws" THEN lstrip(Tail(s)) ELSE s
RECURSIVE rstrip(_)
rstrip(s) ==
    IF s # <<>> /\ s[Len(s)] = "ws" THEN rstrip(SubSeq(s, 1, Len(s) - 1)) ELSE s
strip(s) == rstrip(lstrip(s))

\* utils.split_concatenated_json: the chunks between white space
IsChunk(tok) == tok # "ws"
split_concatenated_json(args_string) == SelectSeq(args_string, IsChunk)

\* json.loads raises JSONDecodeError on a chunk that is not JSON
Parses(chunk) == chunk # "junk"

\* lines 805-819: the parameter sets of one tool call
decode_args(arguments) ==
    LET args_string == strip(arguments)
        parsed == IF args_string # <<>>
                  THEN SelectSeq(split_concatenated_json(args_string), Parses)
                  ELSE <<>>
    IN IF parsed = <<>> /\ args_string = <<>> THEN <<"empty">> ELSE parsed

\* The rows of the dispatch table.  The deletelines row names a function
\* that is not defined in the module.
DefinedHandlers == {"replaceline", "remove", "undochange", "shownumberedcontext"}
BuiltinNames == DefinedHandlers \cup {"deletelines"}
NoRequiredParams == {"undochange"}

Fits(norm_tool_name, params) ==
    \/ params = "obj"
    \/ params = "empty" /\ norm_tool_name \in NoRequiredParams

\* f(self, **params) raises before or instead of running the handler
CallRaises(norm_tool_name, params) ==
    \/ norm_tool_name \notin DefinedHandlers
    \/ ~Fits(norm_tool_name, params)

UnknownToolResult(tool_name) ==
    CASE tool_name = "Bogus" -> "Error: Unknown local tool name 'Bogus'"
      [] tool_name = "mytool" -> "Error: Unknown local tool name 'mytool'"
      [] tool_name = "MyTool" -> "Error: Unknown local tool name 'MyTool'"
      [] OTHER -> "Error: Unknown local tool name"

RECURSIVE join_blank(_)
join_blank(results) ==
    IF results = <<>> THEN <<>>
    ELSE IF Len(results) = 1 THEN results
    ELSE <<results[1], BLANK_LINE>> \o join_blank(Tail(results))

ToolResponse(tool_call, content) ==
    [tool_call_id |-> tool_call.id, name |-> tool_call.name, content |-> content]

\* lines 904-908: the handler of an exception raised anywhere in one call
on_exception_no_response(responses, tool_call) == responses
on_exception(responses, tool_call) ==
    Append(responses, ToolResponse(tool_call, <<"Error executing tool">>))

CurrentCall == tool_calls_list[call_idx]

NextCall ==
    /\ call_idx' = call_idx + 1
    /\ pc' = IF call_idx + 1 > Len(tool_calls_list) THEN "done" ELSE "decode"
    /\ parsed_args_list' = <<>>
    /\ all_results_content' = <<>>

Bookkeeping ==
    /\ last_op' = Op("dispatch", None, "")
    /\ last_args' = NoArgs
    /\ UNCHANGED tool_vars

BeginTurn ==
    /\ pc = "idle"
    /\ \E t \in Turns :
        /\ tool_calls_list' = t
        /\ pc' = IF t = <<>> THEN "done" ELSE "decode"
    /\ call_idx' = 1
    /\ parsed_args_list' = <<>>
    /\ all_results_content' = <<>>
    /\ tool_responses' = <<>>
    /\ runs' = <<>>
    /\ Bookkeeping

DecodeArgs ==
    /\ pc = "decode"
    /\ parsed_args_list' = decode_args(CurrentCall.arguments)
    /\ pc' = "dispatch"
    /\ UNCHANGED <<tool_calls_list, call_idx, all_results_content, tool_responses, runs>>
    /\ Bookkeeping

\* The parameters an "obj" fragment carries for each handler.
BuiltinRun(norm_tool_name, params) ==
    CASE norm_tool_name = "replaceline" ->
            ReplaceLineRun("a", 1, <<"y">>, None, FALSE, FALSE)
      [] norm_tool_name = "remove" -> RemoveRun("./a")
      [] norm_tool_name = "undochange" ->
            IF params = "empty" THEN UndoChangeRun(None, None)
            ELSE UndoChangeRun(None, "a")
      [] norm_tool_name = "shownumberedcontext" -> ShowNumberedContextRun("a", 1, 1)

Ran == Append(runs, [call |-> call_idx, frag |->
                       Len(decode_args(CurrentCall.arguments)) - Len(parsed_args_list) + 1])

DispatchBuiltin ==
    /\ pc = "dispatch" /\ parsed_args_list # <<>>
    /\ lower(CurrentCall.name) \in BuiltinNames
    /\ ~CallRaises(lower(CurrentCall.name), Head(parsed_args_list))
    /\ BuiltinRun(lower(CurrentCall.name), Head(parsed_args_list))
    /\ last_args' = NoArgs
    /\ all_results_content' = Append(all_results_content, last_op'.result)
    /\ parsed_args_list' = Tail(parsed_args_list)
    /\ runs' = Ran
    /\ UNCHANGED <<pc, tool_calls_list, call_idx, tool_responses>>

DispatchRaises ==
    /\ pc = "dispatch" /\ parsed_args_list # <<>>
    /\ lower(CurrentCall.name) \in BuiltinNames
    /\ CallRaises(lower(CurrentCall.name), Head(parsed_args_list))
    /\ tool_responses' = on_exception(tool_responses, CurrentCall)
    /\ NextCall
    /\ UNCHANGED <<tool_calls_list, runs>>
    /\ Bookkeeping

\* lines 887-896: a loaded tool runs inside its own try block
DispatchCustom ==
    /\ pc = "dispatch" /\ parsed_args_list # <<>>
    /\ lower(CurrentCall.name) \notin BuiltinNames
    /\ CurrentCall.name \in DOMAIN local_tool_instances
    /\ all_results_content' = Append(all_results_content,
          IF Head(parsed_args_list) = "obj" THEN "custom tool result"
          ELSE "Error executing custom tool")
    /\ parsed_args_list' = Tail(parsed_args_list)
    /\ runs' = Ran
    /\ UNCHANGED <<pc, tool_calls_list, call_idx, tool_responses>>
    /\ last_op' = [Op(CurrentCall.name, None, "") EXCEPT
                      !.started = local_tool_instances[CurrentCall.name].class]
    /\ last_args' = NoArgs
    /\ UNCHANGED tool_vars

DispatchUnknown ==
    /\ pc = "dispatch" /\ parsed_args_list # <<>>
    /\ lower(CurrentCall.name) \notin BuiltinNames
    /\ CurrentCall.name \notin DOMAIN local_tool_instances
    /\ all_results_content' = Append(all_results_content,
                                     UnknownToolResult(CurrentCall.name))
    /\ parsed_args_list' = Tail(parsed_args_list)
    /\ UNCHANGED <<pc, tool_calls_list, call_idx, tool_responses, runs>>
    /\ Bookkeeping

FinishCall ==
    /\ pc = "dispatch" /\ parsed_args_list = <<>>
    /\ tool_responses' = Append(tool_responses,
          ToolResponse(CurrentCall, join_blank(all_results_content)))
    /\ NextCall
    /\ UNCHANGED <<tool_calls_list, runs>>
    /\ Bookkeeping

\* One turn, from a coder with a editable and b read-only.
InitDispatch ==
    /\ Init
    /\ abs_fnames = {"/r/a"}
    /\ abs_read_only_fnames = {"/r/b"}

NextDispatch ==
    \/ ToolAddFromPath
    \/ BeginTurn \/ DecodeArgs
    \/ DispatchBuiltin \/ DispatchRaises \/ DispatchCustom \/ DispatchUnknown
    \/ FinishCall

SpecDispatch == InitDispatch /\ [][NextDispatch]_vars

\* Up to MaxUndoEdits line replacements and undos of them, in any order.
MaxUndoEdits == 2

ReplaceLineTracked ==
    /\ Idle
    /\ Len(edit_log) < MaxUndoEdits
    /\ \E f \in RelInputs, n \in LineArgs, t \in LineTexts, c \in ChangeIdArgs,
          tf \in BOOLEAN : ReplaceLineRun(f, n, t, c, FALSE, tf)

UndoChangeReq ==
    /\ NoTurn
    /\ \E c \in UndoIdArgs, f \in RelInputs \cup {None}, write_raises \in BOOLEAN :
          /\ IF write_raises THEN UndoChangeWriteRaises(c, f)
             ELSE UndoChangeRun(c, f)
          /\ last_args' = [tool |-> "UndoChange", change_id |-> c, file_path |-> f,
                           write_raises |-> write_raises]

NextUndo == ReplaceLineTracked \/ UndoChangeReq

SpecUndo == Init /\ [][NextUndo]_vars

\* Mode changes of the files in context, each request keeping the two sets
\* it found and the request before it, while files are deleted from the disk.
ModeTools == {"MakeEditable", "MakeReadonly"}
ModeArgs(tool, file_path) ==
    [tool |-> tool, file_path |-> file_path,
     before |-> <<abs_fnames, abs_read_only_fnames>>,
     prev |-> IF last_args.tool \in ModeTools
              THEN [tool |-> last_args.tool, file_path |-> last_args.file_path,
                    before |-> last_args.before]
              ELSE NoArgs]

MakeEditableReq ==
    /\ NoTurn
    /\ \E f \in RelInputs :
          MakeEditableRun(f) /\ last_args' = ModeArgs("MakeEditable", f)

MakeReadonlyReq ==
    /\ NoTurn
    /\ \E f \in RelInputs :
          MakeReadonlyRun(f) /\ last_args' = ModeArgs("MakeReadonly", f)

Unlink ==
    /\ NoTurn
    /\ \E abs_path \in AbsPaths :
          /\ isfile(abs_path)
          /\ files' = [files EXCEPT ![abs_path] = Absent]
    /\ UNCHANGED <<ctx_vars, ledger_vars, aider_edited_files, registry_vars, edit_log,
                   undo_count, last_op, last_args>>

NextMode == MakeEditableReq \/ MakeReadonlyReq \/ Unlink

SpecMode == InitDispatch /\ [][NextMode]_vars

\* Loads of tool files of every kind, then a turn of one call to a name a
\* loaded definition may carry.
LoadedTurns ==
    { <<[id |-> "t1", name |-> n, arguments |-> <<"obj">>]>> : n \in PatternNames }

ToolAddFromPathReq ==
    /\ NoTurn
    /\ \E m \in ToolModules, c \in BOOLEAN :
          /\ tool_add_from_path("a", m, c)
          /\ last_args' = [tool |-> "tool_add_from_path", module |-> m,
                           confirmed |-> c]

BeginLoadedTurn ==
    /\ pc = "idle"
    /\ \E t \in LoadedTurns : tool_calls_list' = t
    /\ pc' = "decode"
    /\ call_idx' = 1
    /\ parsed_args_list' = <<>>
    /\ all_results_content' = <<>>
    /\ tool_responses' = <<>>
    /\ runs' = <<>>
    /\ Bookkeeping

\* CreateTool.run.  generated is whether the request passes the checks of the
\* file name and the scope and the model answers with code for that file;
\* module is what the saved file holds.  The tool's file lies outside the
\* files whose content is modelled.
CREATED_AND_LOADED == "Tool created, loaded, and is now available for use."
CreateToolResult(generated) ==
    IF generated THEN CREATED_AND_LOADED ELSE "Error: tool not created"

CreateToolRun(file_name, generated, module, confirmed) ==
    IF generated THEN tool_add_from_path(file_name, module, confirmed)
    ELSE Reports(Op("CreateTool", None, CreateToolResult(generated)))

CreateToolReq ==
    /\ NoTurn
    /\ \E g \in BOOLEAN, m \in { t \in ToolModules : t.py }, c \in BOOLEAN :
          /\ CreateToolRun("a", g, m, c)
          /\ last_args' = [tool |-> "CreateTool", module |-> m, confirmed |-> c,
                           result |-> CreateToolResult(g)]

\* NavigatorCoder.initialize_local_tools: the local_tools entry becomes the
\* built-in schemas of the editing mode in force after the call.
initialize_local_tools ==
    mcp_tools' =
        IF local_tools_entry_index # 0
        THEN [mcp_tools EXCEPT ![local_tools_entry_index] =
                <<LOCAL_TOOLS, get_local_tool_schemas'>>]
        ELSE Append(mcp_tools, <<LOCAL_TOOLS, get_local_tool_schemas'>>)

RegistryCall(name) ==
    /\ NoTurn
    /\ last_op' = Op(name, None, "")
    /\ last_args' = NoArgs
    /\ UNCHANGED <<files, ctx_vars, ledger_vars, aider_edited_files, edit_log,
                   undo_count, local_tool_instances, custom_tools>>

InitializeLocalTools ==
    /\ UNCHANGED use_granular_editing
    /\ initialize_local_tools
    /\ RegistryCall("initialize_local_tools")

\* NavigatorCoder.set_granular_editing
SetGranularEditing ==
    /\ \E enabled \in BOOLEAN : use_granular_editing' = enabled
    /\ initialize_local_tools
    /\ RegistryCall("set_granular_editing")

\* -------------------------------------------- advertised parameter names
\* The parameters of the schemas of get_local_tool_schemas, for the tools
\* whose handler is in the source: all properties and the required ones.
Schema(properties, required) == [properties |-> properties, required |-> required]
SchemaParams ==
    [ViewFilesAtGlob |-> Schema({"pattern"}, {"pattern"}),
     Ls |-> Schema({"directory"}, {"directory"}),
     View |-> Schema({"file_path"}, {"file_path"}),
     Remove |-> Schema({"file_path"}, {"file_path"}),
     MakeEditable |-> Schema({"file_path"}, {"file_path"}),
     MakeReadonly |-> Schema({"file_path"}, {"file_path"}),
     ViewFilesWithSymbol |-> Schema({"symbol"}, {"symbol"}),
     Command |-> Schema({"command_string"}, {"command_string"}),
     CommandInteractive |-> Schema({"command_string"}, {"command_string"}),
     ReplaceText |-> Schema({"file_path", "find_text", "replace_text", "near_context",
                             "occurrence", "change_id", "dry_run"},
                            {"file_path", "find_text", "replace_text"}),
     ReplaceAll |-> Schema({"file_path", "find_text", "replace_text", "change_id",
                            "dry_run"},
                           {"file_path", "find_text", "replace_text"}),
     ReplaceLine |-> Schema({"file_path", "line_number", "new_content", "change_id",
                             "dry_run"},
                            {"file_path", "line_number", "new_content"}),
     UndoChange |-> Schema({"change_id", "file_path"}, {}),
     ListChanges |-> Schema({"file_path", "limit"}, {}),
     ShowNumberedContext |-> Schema({"file_path", "pattern", "line_number",
                                     "context_lines"}, {"file_path"})]

\* The signatures of the functions the dispatch table calls with **params:
\* all parameter names and those without a default.
HandlerParams ==
    [viewfilesatglob |-> Schema({"pattern"}, {"pattern"}),
     ls |-> Schema({"dir_path"}, {"dir_path"}),
     view |-> Schema({"file_path"}, {"file_path"}),
     remove |-> Schema({"file_path"}, {"file_path"}),
     makeeditable |-> Schema({"file_path"}, {"file_path"}),
     makereadonly |-> Schema({"file_path"}, {"file_path"}),
     viewfileswithsymbol |-> Schema({"symbol"}, {"symbol"}),
     command |-> Schema({"command_string"}, {"command_string"}),
     commandinteractive |-> Schema({"command_string"}, {"command_string"}),
     replacetext |-> Schema({"file_path", "find_text", "replace_text", "near_context",
                             "occurrence", "change_id", "dry_run"},
                            {"file_path", "find_text", "replace_text"}),
     replaceall |-> Schema({"file_path", "find_text", "replace_text", "change_id",
                            "dry_run"},
                           {"file_path", "find_text", "replace_text"}),
     replaceline |-> Schema({"file_path", "line_number", "new_content", "change_id",
                             "dry_run"},
                            {"file_path", "line_number", "new_content"}),
     undochange |-> Schema({"change_id", "file_path"}, {}),
     listchanges |-> Schema({"file_path", "limit"}, {}),
     shownumberedcontext |-> Schema({"file_path", "pattern", "line_number",
                                     "context_lines"}, {"file_path"})]

\* f(self, **params) binds the keywords: every name must be a parameter of f
\* and every parameter without a default must be given.
BindsParams(norm_tool_name, params) ==
    /\ params \subseteq HandlerParams[norm_tool_name].properties
    /\ HandlerParams[norm_tool_name].required \subseteq params

\* The tools advertised to the model for which SchemaParams has the schema.
AdvertisedNames ==
    { mcp_tools[k][2][i].name :
        k \in { j \in 1..Len(mcp_tools) : mcp_tools[j][1] = LOCAL_TOOLS },
        i \in 1..Len(mcp_tools[local_tools_entry_index][2]) }
    \cap DOMAIN SchemaParams

\* One call to an advertised tool with some of the parameters of its schema.
AdvertisedCallReq ==
    /\ NoTurn
    /\ \E name \in AdvertisedNames :
        \E params \in SUBSET SchemaParams[name].properties :
          /\ Reports(Op(name, None,
                        IF BindsParams(lower(name), params) THEN "handler called"
                        ELSE "Error executing tool"))
          /\ last_args' = [tool |-> name, params |-> params]

NextSchema == AdvertisedCallReq \/ SetGranularEditing

SpecSchema == InitDispatch /\ [][NextSchema]_vars


NextLoad ==
    \/ ToolAddFromPathReq
    \/ InitializeLocalTools \/ SetGranularEditing \/ CreateToolReq
    \/ BeginLoadedTurn \/ DecodeArgs
    \/ DispatchBuiltin \/ DispatchCustom \/ DispatchUnknown
    \/ FinishCall

SpecLoad == InitDispatch /\ [][NextLoad]_vars

\* ================================================================ claims
IsLedgerId(id) == id \in AllChangeIds

C2_Disjoint == abs_fnames \cap abs_read_only_fnames = {}

\* C3 (last-file protection): a Remove of the sole editable file when there is
\* no read-only file, or of the sole read-only file when there is no editable
\* file, is rejected and leaves the editable, read-only and recently-removed
\* sets unchanged; a Remove on a non-empty context leaves it non-empty.
C3_LastFileProtected ==
    [][ last_op'.tool = "Remove" =>
          /\ ( \/ abs_fnames = {last_op'.path} /\ abs_read_only_fnames = {}
               \/ abs_read_only_fnames = {last_op'.path} /\ abs_fnames = {} )
             => /\ last_op'.result = "Cannot remove - last file in context"
                /\ UNCHANGED ctx_vars
          /\ (abs_fnames \cup abs_read_only_fnames # {})
             => (abs_fnames' \cup abs_read_only_fnames' # {}) ]_vars

\* A Remove of the only file in context has just been rejected.
C3_Witness ==
    /\ last_op.tool = "Remove"
    /\ last_op.result = "Cannot remove - last file in context"
    /\ abs_fnames \cup abs_read_only_fnames = {last_op.path}

\* Fragment numbers of the handler invocations made for tool call i.
RunsOf(i) ==
    LET OfCall(r) == r.call = i
        sel == SelectSeq(runs, OfCall)
    IN [j \in 1..Len(sel) |-> sel[j].frag]

IsHandled(tool_call) ==
    \/ lower(tool_call.name) \in BuiltinNames
    \/ tool_call.name \in DOMAIN local_tool_instances

\* Number of entries of a content that joins k fragment results.
JoinedLen(k) == IF k = 0 THEN 0 ELSE 2 * k - 1

\* C4 (per-fragment failure isolation): when the turn is over, the response
\* of every tool call holds one result per decoded fragment, and every
\* fragment whose parameters fit a handled tool was executed, whatever the
\* other fragments of the call did.
C4_FragmentIsolation ==
    pc = "done" =>
        \A i \in 1..Len(tool_calls_list) :
            LET frags == decode_args(tool_calls_list[i].arguments) IN
            /\ Len(tool_responses[i].content) = JoinedLen(Len(frags))
            /\ \A j \in 1..Len(frags) :
                  (IsHandled(tool_calls_list[i])
                   /\ ~CallRaises(lower(tool_calls_list[i].name), frags[j]))
                  => \E n \in 1..Len(runs) : runs[n] = [call |-> i, frag |-> j]

\* C5 (one response per call): the responses produced so far are those of the
\* tool calls processed so far, one per call, with the call's id and name, in
\* arrival order; at the end of the turn there is one per tool call.
C5_OneResponsePerCall ==
    pc # "idle" =>
        /\ Len(tool_responses) = (IF pc = "done" THEN Len(tool_calls_list)
                                  ELSE call_idx - 1)
        /\ \A i \in 1..Len(tool_responses) :
              /\ tool_responses[i].tool_call_id = tool_calls_list[i].id
              /\ tool_responses[i].name = tool_calls_list[i].name

\* A turn of two tool calls is over and one of the calls raised.
C5_Witness ==
    /\ pc = "done"
    /\ Len(tool_calls_list) = 2
    /\ Len(tool_responses) = 2
    /\ tool_responses[1].content = <<"Error executing tool">>
    /\ tool_responses[2].content # <<"Error executing tool">>

IsObject(tok) == tok \in {"obj", "badobj"}

\* C6 (concatenated-argument dispatch): a call to a handled tool whose raw
\* arguments are k >= 1 back-to-back JSON objects has invoked the handler once
\* for every object that carries the handler's parameters, in the order of the
\* objects, and its response holds k results joined by blank lines.
C6_ConcatenatedDispatch ==
    pc = "done" =>
        \A i \in 1..Len(tool_calls_list) :
            LET tc == tool_calls_list[i]
                k == Len(tc.arguments)
                content == tool_responses[i].content
                fitting == SelectSeq([j \in 1..k |-> j],
                                     LAMBDA j : Fits(lower(tc.name), tc.arguments[j]))
            IN
            (k >= 1 /\ IsHandled(tc) /\ \A j \in 1..k : IsObject(tc.arguments[j])) =>
                /\ RunsOf(i) = fitting
                /\ Len(content) = JoinedLen(k)
                /\ \A j \in 1..Len(content) : (j % 2 = 0) <=> (content[j] = BLANK_LINE)

\* C7 (unknown tool name): the response to a call whose name is neither a
\* built-in tool nor in the dynamic registry is the unknown-tool error, for
\* every argument string.
C7_UnknownToolResult ==
    pc = "done" =>
        \A i \in 1..Len(tool_calls_list) :
            LET tc == tool_calls_list[i]
                content == tool_responses[i].content
            IN
            ~IsHandled(tc) =>
                /\ content # <<>>
                /\ \A j \in 1..Len(content) :
                      (j % 2 = 1) => content[j] = UnknownToolResult(tc.name)

\* C8 (membership decides mutability): a tool of the editing family writes a
\* file only if the file is in the editable set at the moment of the write.
C8_WritesOnlyEditable == last_op.write # NoWrite => last_op.was_editable

\* C9 (every mutation is tracked): each write performed by a non-dry-run edit
\* has a ledger record holding the file and the content before and after it.
C9_EveryWriteTracked ==
    \A i \in 1..Len(edit_log) :
        LET e == edit_log[i] IN
        /\ e.id \in DOMAIN changes
        /\ changes[e.id].file_path = get_rel_fname(e.path)
        /\ changes[e.id].original = e.before
        /\ changes[e.id].new = e.after

NoChangesWarning(tool) ==
    IF tool = "ReplaceLine"
    THEN "Warning: No changes made (new content identical to original)"
    ELSE "Warning: No changes made (replacement identical to original)"

\* C10 (no-op edits): a ReplaceText, ReplaceAll or ReplaceLine whose
\* replacement equals the text it replaces returns the no-changes warning,
\* writes nothing and creates no ledger record.
C10_NoOpEdits ==
    [][ (last_op'.tool \in {"ReplaceText", "ReplaceAll", "ReplaceLine"} /\ last_op'.same) =>
          /\ last_op'.result = NoChangesWarning(last_op'.tool)
          /\ last_op'.write = NoWrite
          /\ UNCHANGED <<files, ledger_vars>> ]_vars

EditTools == {"ReplaceText", "ReplaceAll", "ReplaceLine", "DeleteLines"}
DryRunPreviews == {"Dry run: Would replace line", "Dry run: Would replace", "Dry run: Would delete lines"}
AppliedResults == {"Successfully replaced line", "Replaced text", "Replaced occurrences", "Deleted lines", "Error: could not record change"}

READ_ONLY_ERROR == "Error: File is read-only. Use MakeEditable first."
NOT_IN_CONTEXT_ERROR == "Error: File not in context"

\* C12 (edit precondition): a ReplaceLine or DeleteLines on a file that is in
\* the read-only set is rejected with the instruction to use MakeEditable
\* first, and on a file that is in neither set is rejected as not in context;
\* in both cases the files, the ledger and both sets are unchanged.
C12_EditPrecondition ==
    [][ last_args'.tool \in {"ReplaceLine", "DeleteLines"} =>
          LET abs_path == abs_root_path(last_args'.file_path) IN
          /\ abs_path \in abs_read_only_fnames =>
                /\ last_op'.result = READ_ONLY_ERROR
                /\ UNCHANGED <<files, ledger_vars, abs_fnames, abs_read_only_fnames>>
          /\ abs_path \notin abs_fnames \cup abs_read_only_fnames =>
                /\ last_op'.result = NOT_IN_CONTEXT_ERROR
                /\ UNCHANGED <<files, ledger_vars, abs_fnames, abs_read_only_fnames>> ]_vars

\* The k-th smallest element of a set of offsets.
Kth(S, k) == CHOOSE o \in S : Cardinality({j \in S : j <= o}) = k

OUT_OF_RANGE_ERROR == "Error: Occurrence number out of range"
TEXT_NOT_FOUND_ERROR == "Error: Text not found"

TOOL_EXCEPTION == <<"Error executing tool">>

\* C15 (delete-range dispatch): when the turn is over, a DeleteLines tool call
\* whose arguments are one object carrying the handler's parameters has
\* reached the DeleteLines handler once, and its response is the handler's
\* result, not the report of an exception.
C15_DeleteLinesDispatch ==
    pc = "done" =>
        \A i \in 1..Len(tool_calls_list) :
            (lower(tool_calls_list[i].name) = "deletelines"
             /\ tool_calls_list[i].arguments = <<"obj">>) =>
                /\ RunsOf(i) = <<1>>
                /\ tool_responses[i].content # TOOL_EXCEPTION

\* C16 (line-number validation): a ReplaceLine or DeleteLines on an editable
\* file with a line number below 1 or above the line count of the file, or
\* with start_line > end_line, leaves the files and the ledger unchanged and
\* returns a result that states the valid range 1..line count.
C16_LineNumberValidation ==
    [][ last_args'.tool \in {"ReplaceLine", "DeleteLines"} =>
          LET a == last_args'
              abs_path == abs_root_path(a.file_path)
              n == Len(splitlines(files[abs_path]))
              invalid == IF a.tool = "ReplaceLine"
                         THEN a.line_number \notin 1..n
                         ELSE \/ a.start_line \notin 1..n
                              \/ a.end_line \notin 1..n
                              \/ a.start_line > a.end_line
              detail == last_op'.detail
          IN
          (abs_path \in abs_fnames /\ invalid) =>
              /\ UNCHANGED <<files, ledger_vars, aider_edited_files, edit_log>>
              /\ last_op'.write = NoWrite
              /\ Len(detail) = 3
              /\ SubSeq(detail, 2, 3) = <<1, n>> ]_vars

\* C17 (responses are never empty): the content of every tool response
\* holds a success message or an error description, whatever the argument
\* string of the call.
C17_ContentNeverEmpty ==
    \A i \in 1..Len(tool_responses) : tool_responses[i].content # << >>

\* C18 (argument decoding): when the turn is over, every call to a handled
\* tool has invoked the handler once for each fragment of its argument
\* string that parses, in the order of the fragments, the fragments that do
\* not parse being skipped; a call with an empty or white-space argument
\* string to a tool without required parameters has invoked the handler
\* exactly once, with no parameters.  (Fragments that parse but do not carry
\* the handler's parameters are left to C4.)
C18_ArgumentDecoding ==
    pc = "done" =>
        \A i \in 1..Len(tool_calls_list) :
            LET tc == tool_calls_list[i]
                parseable == SelectSeq(tc.arguments, LAMBDA tok : tok \notin {"ws", "junk"})
                frags == IF strip(tc.arguments) = << >> THEN <<"empty">> ELSE parseable
            IN
            (IsHandled(tc) /\ \A j \in 1..Len(frags) : Fits(lower(tc.name), frags[j])) =>
                RunsOf(i) = [j \in 1..Len(frags) |-> j]

CUSTOM_TOOL_RESULT == <<"custom tool result">>

\* C19 (case-insensitive routing): when the turn is over, a call whose name
\* equals, letter case aside, the name of a built-in tool has run that
\* tool's handler, and a call whose name equals, letter case aside, the name
\* of a tool of the dynamic registry has run that tool.
C19_CaseInsensitiveRouting ==
    pc = "done" =>
        \A i \in 1..Len(tool_calls_list) :
            LET tc == tool_calls_list[i] IN
            tc.arguments = <<"obj">> =>
                /\ lower(tc.name) \in DefinedHandlers => RunsOf(i) = <<1>>
                /\ (\E r \in DOMAIN local_tool_instances : lower(r) = lower(tc.name)) =>
                      /\ RunsOf(i) = <<1>>
                      /\ tool_responses[i].content = CUSTOM_TOOL_RESULT

DiscoveryTools == {"ViewFilesAtGlob", "ViewFilesWithSymbol"}

\* The files in context.
InContext == abs_fnames \cup abs_read_only_fnames

\* The candidates of a discovery request: the files the pattern matches, or
\* the files outside the context that define the symbol.
Candidates(a) ==
    IF a.tool = "ViewFilesAtGlob" THEN a.matching
    ELSE IF a.defining \cap InContext # {} THEN {}
    ELSE a.defining

C22_CapReporting ==
    [][ (last_args'.tool \in DiscoveryTools) =>
          LET candidates == Candidates(last_args') IN
          Cardinality(candidates) > max_files_per_glob =>
              (Cardinality(candidates) - max_files_per_glob) \in ToSet(last_op'.detail) ]_vars

\* The tools that do not create context entries.
NonCreatingTools ==
    {"MakeEditable", "MakeReadonly", "Remove", "ReplaceText", "ReplaceAll",
     "ReplaceLine", "DeleteLines", "UndoChange", "ShowNumberedContext"}

\* C23 (who creates context entries): a call of MakeEditable, MakeReadonly,
\* Remove, an edit tool, UndoChange or ShowNumberedContext puts no path into
\* the editable or the read-only set that was in neither set before it.
C23_NoEntryCreated ==
    [][ (last_op'.tool \in NonCreatingTools) =>
          (abs_fnames' \cup abs_read_only_fnames') \subseteq InContext ]_vars

ShellTools == {"Command", "CommandInteractive"}

\* C24 (confirmation gates shell execution): a Command or CommandInteractive
\* call starts its command only if the confirmation asked for that command
\* string returned true; otherwise nothing is started and the result says
\* that the command was skipped.
C24_ConfirmationGate ==
    [][ (last_args'.tool \in ShellTools) =>
          /\ last_op'.started # None =>
                (last_args'.confirmed /\ last_op'.started = last_args'.command_string)
          /\ ~last_args'.confirmed =>
                /\ last_op'.started = None
                /\ last_op'.result = "Shell command execution skipped by user." ]_vars

RenderOps == {"get_files_content", "get_read_only_files_content"}

\* C25 (truncation is view-only): a rendering of the files in context, with
\* or without truncation, writes no file and changes no ledger record.
C25_RenderingViewOnly ==
    [][ (last_op'.tool \in RenderOps) =>
          /\ UNCHANGED <<files, ledger_vars, edit_log>>
          /\ last_op'.write = NoWrite ]_vars

\* An edited file of the context has been rendered truncated, the ledger
\* holding the record of the edit.
C25_Witness ==
    /\ last_op.tool = "get_files_content"
    /\ last_op.detail = << <<"a", <<"y", TRUNCATION_MARKER, "x">>>> >>
    /\ files["/r/a"] = <<"y", NL, "x">>
    /\ Len(change_order) = 1

\* C26 (unreadable files): a rendering drops from the context, with a
\* warning, every file of the rendered set (the editable set for
\* get_files_content, the read-only set for get_read_only_files_content) that
\* cannot be read, and renders the other files of that set.
C26_UnreadableDropped ==
    [][ (last_args'.tool \in RenderOps) =>
          LET rendered_set == IF last_args'.tool = "get_files_content" THEN abs_fnames
                              ELSE abs_read_only_fnames
              lost == rendered_set \cap last_args'.unreadable
              prompt == last_op'.detail
          IN
          /\ lost \cap (abs_fnames' \cup abs_read_only_fnames') = {}
          /\ lost \subseteq last_op'.warned
          /\ { prompt[i][1] : i \in 1..Len(prompt) }
                = { get_rel_fname(f) : f \in rendered_set \ lost } ]_vars

\* ---------------------------------------------------------------- C27
\* C27: tool_add_from_path registers a tool only if its definition has
\* type "function" and a function object with a name matching the name
\* pattern, a description and a parameters object that is a valid JSON
\* Schema, where a returns object, if present, carries type and description;
\* a load of any other definition leaves local_tool_instances, custom_tools
\* and the advertised tool list as they were.
WellFormedDefinition(d) ==
    /\ d.type = "function"
    /\ d.name # None /\ d.name \in PatternNames
    /\ d.description # None
    /\ d.parameters = "schema"
    /\ d.returns # "no_description"

LoadedDefinition(args) == Head(args.module.classes).definition

C27_DefinitionValidation ==
    [][ (last_args'.tool = "tool_add_from_path") =>
          (\/ last_args'.module.classes = <<>>
           \/ WellFormedDefinition(LoadedDefinition(last_args'))
           \/ UNCHANGED <<local_tool_instances, custom_tools, mcp_tools>>) ]_vars

\* a tool is registered, and the load that came last was of a definition
\* whose parameters are not a JSON Schema
C27_Witness ==
    /\ last_args.tool = "tool_add_from_path"
    /\ last_args.module.classes # <<>>
    /\ LoadedDefinition(last_args).parameters = "bad_schema"
    /\ last_op.result = "Error loading tool"
    /\ DOMAIN local_tool_instances = {"MyTool"}
    /\ custom_tools = {"MyTool"}

\* ---------------------------------------------------------------- C28
\* C28: after tool_add_from_path succeeds for a tool whose definition name is
\* N, the instance registered under N is the newly loaded one, exactly one
\* definition named N is advertised in the local_tools list, and a dispatched
\* tool call named N runs the instance registered under N.
AdvertisedAs(tools, name) == { i \in 1..Len(tools) : tools[i].name = name }

C28_LoadMakesAvailable ==
    [][ /\ (last_args'.tool = "tool_add_from_path"
              /\ last_op'.result = "Successfully loaded tool") =>
            LET tool_class == Head(last_args'.module.classes)
                N == tool_class.definition.name
            IN /\ N \in DOMAIN local_tool_instances'
               /\ local_tool_instances'[N] = tool_class
               /\ \A k \in 1..Len(mcp_tools') :
                     (mcp_tools'[k][1] = LOCAL_TOOLS) =>
                         Cardinality(AdvertisedAs(mcp_tools'[k][2], N)) = 1
        /\ (pc = "dispatch" /\ parsed_args_list # <<>>
              /\ CurrentCall.name \in DOMAIN local_tool_instances) =>
            \/ UNCHANGED vars
            \/ /\ last_op'.tool = CurrentCall.name
               /\ last_op'.started = local_tool_instances[CurrentCall.name].class
      ]_vars

\* ---------------------------------------------------------------- C29
\* C29: tool_add_from_path registers a tool only when the loaded module
\* contains exactly one class implementing the tool interface; a load of a
\* module with none, or with more than one, registers nothing.
C29_ExactlyOneToolClass ==
    [][ (last_args'.tool = "tool_add_from_path"
           /\ Len(last_args'.module.classes) # 1) =>
          UNCHANGED <<local_tool_instances, custom_tools, mcp_tools>> ]_vars

\* ---------------------------------------------------------------- C30
\* Two successive recorded changes to one file, both undone: edit_log[i] is
\* c1 (A to B) and edit_log[i + 1] is c2 (B to C).
BothUndone(i) ==
    /\ i + 1 <= Len(edit_log)
    /\ edit_log[i].path = edit_log[i + 1].path
    /\ edit_log[i].after = edit_log[i + 1].before
    /\ edit_log[i].id \in DOMAIN changes /\ changes[edit_log[i].id].reverted
    /\ edit_log[i + 1].id \in DOMAIN changes /\ changes[edit_log[i + 1].id].reverted
    /\ edit_log[i].id # edit_log[i + 1].id

UndoneLast(i, k) ==
    /\ BothUndone(i)
    /\ last_op.tool = "UndoChange"
    /\ last_op.result = "Successfully undid change"
    /\ last_op.change_id = edit_log[k].id

\* C30 as stated: after two successive changes c1 (A to B) and c2 (B to C)
\* to the same file, undoing both, in either order, leaves the file with
\* content A.
C30_UndoOrderIndependence ==
    \A i \in 1..Len(edit_log) : \A k \in {i, i + 1} :
        UndoneLast(i, k) => files[edit_log[i].path] = edit_log[i].before

\* C30 amended: after two successive changes c1 (A to B) and c2 (B to C) to
\* the same file, undoing both leaves the file with the content the change
\* undone last started from: A when c2 is undone before c1, B when c1 is
\* undone before c2.
C30_UndoRestoresLastOriginal ==
    \A i \in 1..Len(edit_log) : \A k \in {i, i + 1} :
        UndoneLast(i, k) => files[edit_log[i].path] = edit_log[k].before

\* c2 was undone, then c1, and the file holds A again
C30_Witness ==
    /\ Len(edit_log) = 2
    /\ UndoneLast(1, 1)
    /\ edit_log[2].after # edit_log[1].before
    /\ files[edit_log[1].path] = edit_log[1].before

\* ---------------------------------------------------------------- C31
\* The recorded writes to the file at abs_path, oldest first.
EditsOf(abs_path) == SelectSeq(edit_log, LAMBDA e : e.path = abs_path)
Undone(e) == e.id \in DOMAIN changes /\ changes[e.id].reverted

\* The last u of the edits of the file are undone and the others are not:
\* the state after the edits and u undos by file.
WalkedBack(abs_path, u) ==
    /\ u \in 0..Len(EditsOf(abs_path))
    /\ \A j \in 1..Len(EditsOf(abs_path)) :
          Undone(EditsOf(abs_path)[j]) <=> (j > Len(EditsOf(abs_path)) - u)

\* C31: after k successful edits to file f and no other activity, k
\* consecutive UndoChange(file_path=f) calls each succeed, the i-th restoring
\* the content f had before the (k-i+1)-th edit, and the (k+1)-th call fails.
C31_UndoByFileWalksBack ==
    [][ (/\ last_args'.tool = "UndoChange"
         /\ last_args'.file_path # None
         /\ last_args'.change_id = None
         /\ ~last_args'.write_raises) =>
          LET abs_path == abs_root_path(last_args'.file_path)
              k == Len(EditsOf(abs_path))
          IN \A u \in 0..k :
                WalkedBack(abs_path, u) =>
                    IF u < k
                    THEN /\ last_op'.result = "Successfully undid change"
                         /\ files'[abs_path] = EditsOf(abs_path)[k - u].before
                    ELSE /\ last_op'.result = "Error: No changes found for file"
                         /\ files' = files ]_vars

\* ---------------------------------------------------------------- C32
\* C32: if UndoChange fails while restoring the file (the write of the
\* original content raises), the change record is not left marked reverted
\* and the ledger and the file are as before the call.
C32_FailedUndoChangesNothing ==
    [][ (/\ last_args'.tool = "UndoChange"
         /\ last_args'.write_raises
         /\ last_op'.result # "Successfully undid change") =>
          (changes' = changes /\ change_order' = change_order /\ files' = files) ]_vars

\* ---------------------------------------------------------------- C33
\* C33: when a change_id is given, the change that UndoChange reverts is the
\* one with that id, whether or not a file_path is given in the same call.
C33_UndoRevertsRequestedChange ==
    [][ (last_args'.tool = "UndoChange" /\ last_args'.change_id # None) =>
          \A id \in DOMAIN changes :
              (changes'[id].reverted # changes[id].reverted) =>
                  id = last_args'.change_id ]_vars

\* ---------------------------------------------------------------- C34
\* The content a line edit should leave: the lines that stay, in their
\* order, with the line terminators of the original, the one of its last
\* line included.
EndsWithNL(content) == content # <<>> /\ content[Len(content)] = NL
WithTerminatorsOf(original, lines) ==
    IF EndsWithNL(original) /\ lines # <<>> THEN Append(join_nl(lines), NL)
    ELSE join_nl(lines)

\* C34: after a successful ReplaceLine or DeleteLines, every line outside the
\* targeted line or range has the same text and the same relative position as
\* before, and the line terminators of the file, including the terminator of
\* its last line, are unchanged.
C34_LineEditFrame ==
    [][ (last_args'.tool \in {"ReplaceLine", "DeleteLines"} /\ files' # files) =>
          LET a == last_args'
              abs_path == abs_root_path(a.file_path)
              lines == splitlines(files[abs_path])
              stay == IF a.tool = "ReplaceLine"
                      THEN [lines EXCEPT ![a.line_number] = a.new_content]
                      ELSE SubSeq(lines, 1, a.start_line - 1)
                              \o SubSeq(lines, a.end_line + 1, Len(lines))
          IN files'[abs_path] = WithTerminatorsOf(files[abs_path], stay) ]_vars

\* ---------------------------------------------------------------- C35
\* rendered is h lines from the head of the file, the marker, and t lines
\* from its tail.
HeadMarkerTail(rendered, lines, h, t) ==
    rendered = join_nl(SubSeq(lines, 1, h)) \o <<TRUNCATION_MARKER>>
                  \o join_nl(SubSeq(lines, Len(lines) - t + 1, Len(lines)))

\* C35: for a file whose token count exceeds large_file_token_threshold, the
\* rendered content is a head slice, a marker and a tail slice that do not
\* overlap, and the number of file lines rendered is at most
\* large_file_token_threshold // 40 and at most the number of lines of the
\* file, for every threshold and every line count.
C35_TruncationNeverEnlarges ==
    (last_args.tool \in RenderOps /\ last_args.enabled) =>
        \A i \in 1..Len(last_op.detail) :
            LET abs_path == abs_root_path(last_op.detail[i][1])
                lines == splitlines(files[abs_path])
            IN abs_path \in last_args.large =>
                  \E h \in 0..Len(lines), t \in 0..Len(lines) :
                      /\ h + t <= Len(lines)
                      /\ h + t <= last_args.threshold \div 40
                      /\ HeadMarkerTail(last_op.detail[i][2], lines, h, t)

\* ---------------------------------------------------------------- C36
\* The request before was the opposite mode change of the same file, made
\* when the file was in the set that request takes it from.
ClosesPair(args) ==
    /\ args.prev.tool \in ModeTools \ {args.tool}
    /\ abs_root_path(args.prev.file_path) = abs_root_path(args.file_path)
    /\ abs_root_path(args.file_path) \in
          (IF args.prev.tool = "MakeReadonly" THEN args.prev.before[1]
           ELSE args.prev.before[2])

\* C36: for a file in context, MakeEditable and MakeReadonly never change the
\* union of the editable and read-only sets, and MakeReadonly followed by
\* MakeEditable on an editable file (or MakeEditable followed by MakeReadonly
\* on a read-only file) restores both sets to their state before the pair,
\* whatever happened to the file on disk in between.
C36_ModeRoundTrip ==
    [][ (last_args'.tool \in ModeTools /\ last_args' # last_args) =>
          LET abs_path == abs_root_path(last_args'.file_path) IN
          /\ (abs_path \in abs_fnames \cup abs_read_only_fnames) =>
                (abs_fnames' \cup abs_read_only_fnames'
                    = abs_fnames \cup abs_read_only_fnames)
          /\ ClosesPair(last_args') =>
                (<<abs_fnames', abs_read_only_fnames'>> = last_args'.prev.before)
      ]_vars

\* ---------------------------------------------------------------- C37
LocalToolsEntries == { k \in 1..Len(mcp_tools) : mcp_tools[k][1] = LOCAL_TOOLS }

\* C37: after any sequence of tool_add_from_path, initialize_local_tools and
\* set_granular_editing calls, every dynamically loaded tool that the
\* dispatcher can run has its definition in the single local_tools entry of
\* the advertised tool list, and mcp_tools holds exactly one local_tools entry.
C37_RegistryAgreesWithAdvertised ==
    /\ Cardinality(LocalToolsEntries) = 1
    /\ \A N \in DOMAIN local_tool_instances :
          \A k \in LocalToolsEntries :
              \E i \in 1..Len(mcp_tools[k][2]) :
                  mcp_tools[k][2][i] = Definition(N, local_tool_instances[N].class)

\* ---------------------------------------------------------------- C38
\* C38: CreateTool returns "Tool '<file>' created, loaded, and is now
\* available for use." only if the saved file was loaded and the tool is
\* registered in the dynamic registry; when loading the saved file fails the
\* result is an error.
C38_CreateToolReportsLoad ==
    (last_args.tool = "CreateTool" /\ last_args.result = CREATED_AND_LOADED) =>
        /\ last_args.module.classes # <<>>
        /\ LoadedDefinition(last_args).name \in DOMAIN local_tool_instances
        /\ local_tool_instances[LoadedDefinition(last_args).name]
              = Head(last_args.module.classes)
        /\ last_op.result = "Successfully loaded tool"

\* ---------------------------------------------------------------- C39
\* C39: for every built-in tool whose handler is in the source, a call that
\* carries exactly the required parameters of the schema advertised by
\* get_local_tool_schemas is accepted by the handler the dispatcher calls: it
\* does not fail on a parameter name.
C39_SchemaMatchesHandler ==
    (/\ last_args.tool \in DOMAIN SchemaParams
     /\ last_op.tool = last_args.tool
     /\ "params" \in DOMAIN last_args
     /\ last_args.params = SchemaParams[last_args.tool].required) =>
        last_op.result # "Error executing tool"

====
